---------------------------- MODULE Spec2Model ----------------------------
(***************************************************************************)
(* A model of the signal-driven sampling pipeline of the Python profiling  *)
(* agent: the async-safe fixed table of call traces (stacktraces.h /       *)
(* stacktraces.cc), the harvest into the growable multiset, the SIGPROF    *)
(* handler and the CPUProfiler session (profiler.h / profiler.cc).         *)
(***************************************************************************)
EXTENDS Integers, Sequences, FiniteSets, TLC

(***************************************************************************)
(* Bounds of the model.                                                    *)
(***************************************************************************)
\* Number of slots of the fixed table: kMaxStackTraces (2048) scaled down.
NumSlots == 2
\* Largest number of signal handler invocations in one behaviour.
MaxAdds == 2
\* The same, where the operations run one after the other.
MaxSeqAdds == 3

(***************************************************************************)
(* Program constants.                                                      *)
(***************************************************************************)
kTraceCountLocked == -1
kNoPyState == -1
kUnknown == 0
\* Frames the handler captures at most: kMaxFramesToCapture (128) scaled
\* down so that the model's deepest frame chain exceeds it.
kMaxFramesToCapture == 2

NullPtr == 0

(***************************************************************************)
(* 64-bit unsigned arithmetic, as CalculateHash needs it.  A word is a     *)
(* tuple of four 16-bit limbs, least significant first.                    *)
(***************************************************************************)
RECURSIVE Pow2(_)
Pow2(k) == IF k = 0 THEN 1 ELSE 2 * Pow2(k - 1)

LimbBase == Pow2(16)

\* static_cast<uintptr_t>(int): sign extension to 64 bits.
BVFromInt(n) ==
  IF n >= 0 THEN <<n % LimbBase, n \div LimbBase, 0, 0>>
  ELSE LET m == -(n + 1)
       IN <<(LimbBase - 1) - (m % LimbBase), (LimbBase - 1) - (m \div LimbBase),
            LimbBase - 1, LimbBase - 1>>

\* a + b modulo 2^64.
BVAdd(a, b) ==
  LET s1 == a[1] + b[1]
      s2 == a[2] + b[2] + (s1 \div LimbBase)
      s3 == a[3] + b[3] + (s2 \div LimbBase)
      s4 == a[4] + b[4] + (s3 \div LimbBase)
  IN <<s1 % LimbBase, s2 % LimbBase, s3 % LimbBase, s4 % LimbBase>>

\* a << k modulo 2^64, for 0 < k < 16.
BVShl(a, k) ==
  [i \in 1 .. 4 |->
     ((a[i] * Pow2(k)) % LimbBase)
       + (IF i > 1 THEN a[i - 1] \div Pow2(16 - k) ELSE 0)]

\* a >> k, for 0 < k < 16.
BVShr(a, k) ==
  [i \in 1 .. 4 |->
     (a[i] \div Pow2(k))
       + (IF i < 4 THEN (a[i + 1] % Pow2(k)) * Pow2(16 - k) ELSE 0)]

RECURSIVE XorBits(_, _, _)
XorBits(x, y, n) ==
  IF n = 0 THEN 0
  ELSE ((x + y) % 2) + 2 * XorBits(x \div 2, y \div 2, n - 1)

BVXor(a, b) ==
  <<XorBits(a[1], b[1], 16), XorBits(a[2], b[2], 16),
    XorBits(a[3], b[3], 16), XorBits(a[4], b[4], 16)>>

\* a % n for 0 < n < 2^15.
BVMod(a, n) ==
  LET r4 == a[4] % n
      r3 == (r4 * LimbBase + a[3]) % n
      r2 == (r3 * LimbBase + a[2]) % n
  IN (r2 * LimbBase + a[1]) % n

\* One mixing round of CalculateHash: h += x; h += h << 10; h ^= h >> 6.
HashMix(h, x) ==
  LET h1 == BVAdd(h, x)
      h2 == BVAdd(h1, BVShl(h1, 10))
  IN BVXor(h2, BVShr(h2, 6))

RECURSIVE HashFrames(_, _, _)
HashFrames(h, frame, i) ==
  IF i > Len(frame) THEN h
  ELSE HashFrames(HashMix(HashMix(h, BVFromInt(frame[i].lineno)),
                          BVFromInt(frame[i].py_code)),
                  frame, i + 1)

\* uint64_t CalculateHash(int num_frames, const CallFrame *frame)
CalculateHash(frame) ==
  LET h  == HashFrames(BVFromInt(0), frame, 1)
      h1 == BVAdd(h, BVShl(h, 3))
  IN BVXor(h1, BVShr(h1, 11))

\* bool Equal(int num_frames, const CallFrame *f1, const CallFrame *f2)
Equal(num_frames, f1, f2) ==
  \A i \in 1 .. num_frames :
    f1[i].lineno = f2[i].lineno /\ f1[i].py_code = f2[i].py_code

(***************************************************************************)
(* The host: threads and frame chains.                                     *)
(***************************************************************************)
\* Threads SIGPROF can interrupt.  Each runs at most one handler at a time:
\* SIGPROF is blocked while its handler runs.
Writers == {1, 2}

\* Frames of the host's frame chains: f_lineno and f_code (a code record's
\* address).
HostFrame(line, code) == [lineno |-> line, py_code |-> code]

\* What get_thread_state_func() can return: no thread state (is_null), or a
\* thread state with its frame chain, innermost frame first.
FrameChains ==
  { <<>>,
    <<HostFrame(10, 1)>>,
    <<HostFrame(10, 2)>>,
    <<HostFrame(10, 1), HostFrame(20, 2)>>,
    <<HostFrame(10, 1), HostFrame(20, 2), HostFrame(30, 2)>> }
NullTS == [is_null |-> TRUE, frame |-> <<>>]
ThreadStates ==
  {NullTS} \cup {[is_null |-> FALSE, frame |-> c] : c \in FrameChains}

\* The thread states sampled in the specification of the table alone: an
\* empty chain and two chains whose traces share their first frame.
TableThreadStates ==
  {[is_null |-> FALSE, frame |-> c] :
     c \in {<<>>, <<HostFrame(10, 1)>>,
            <<HostFrame(10, 1), HostFrame(20, 2)>>}}

\* The thread states sampled in the specification of a session: an empty
\* chain and two one-frame chains at the same line of two code records.
SessionThreadStates ==
  {[is_null |-> FALSE, frame |-> c] :
     c \in {<<>>, <<HostFrame(10, 1)>>, <<HostFrame(10, 2)>>}}

\* The addresses of the host's code records.
CodeAddrs == {1, 2}

\* The addresses whose records die while the process runs; the record at
\* the other address lives as long as the process.
MortalAddrs == {1}

\* The one thread that SIGPROF interrupts in the specifications of a
\* session; the table's use by several threads is the subject of Spec.
SessionWriters == {1}

\* PyCode_Type.tp_dealloc: the host's destructor, or the hook's wrapper.
HostCodeDealloc == "code_dealloc"
HookCodeDealloc == "CodeDeallocHook::CodeDealloc"

\* A code record: whether it is alive, its co_name, and how many records
\* were allocated at its address before it.
CodeRecord(live, name, gen) == [live |-> live, name |-> name, gen |-> gen]

Min(a, b) == IF a < b THEN a ELSE b

\* A handler that would take a null thread state for one without frames.
HandleTraceNoFrame(ts) ==
  SubSeq(ts.frame, 1, Min(Len(ts.frame), kMaxFramesToCapture))

\* The trace Profiler::Handle builds from the thread state.
HandleTrace(ts) ==
  IF ts.is_null THEN <<[lineno |-> kNoPyState, py_code |-> NullPtr]>>
  ELSE SubSeq(ts.frame, 1, Min(Len(ts.frame), kMaxFramesToCapture))

AllTraces == {HandleTrace(ts) : ts \in ThreadStates}

Slots == 0 .. (NumSlots - 1)

\* hash_val of Add, per trace.
HashVal == [t \in AllTraces |-> CalculateHash(t)]

\* idx = (i + hash_val) % MaxEntries()
ProbeIdx == [t \in AllTraces, i \in Slots |->
               BVMod(BVAdd(BVFromInt(i), HashVal[t]), NumSlots)]

(***************************************************************************)
(* State.                                                                  *)
(***************************************************************************)
VARIABLES
  \* AsyncSafeTraceMultiset::traces_ : per slot the atomic count, the atomic
  \* active_updates and the stored trace (the first num_frames frames).
  count, active_updates, trace,
  \* Profiler::unknown_stack_count_
  unknown_stack_count_,
  \* Profiler::aggregated_traces_ : the growable multiset, trace -> count.
  aggregated_traces_,
  \* Per thread, the handler invocation: its position, the trace it built,
  \* Add's loop variable i and Add's local count.
  h_pc, h_trace, h_ts_null, h_i, h_count,
  \* The thread of HarvestSamples / Extract: position, location, Extract's
  \* locals c, num_frames and the caller's frames buffer, its result, and
  \* who called it: HarvestSamples, or a direct caller.
  d_pc, d_loc, d_c, d_num_frames, d_frames, d_ret, d_caller,
  \* History: handler invocations started so far.
  started,
  \* History: per trace, the Add calls made and those that returned true.
  calls, adds_true,
  \* History: the writes to slots' count and frames that the thread's running
  \* Add has made.
  h_log,
  \* History: the value Extract loaded from count, whether the running
  \* Extract wrote to its slot, and per slot the trace last published and
  \* the adds absorbed since.
  d_loaded, d_wrote, published, absorbed,
  \* CPUProfiler::Collect: its position, the number of the session, whether
  \* its thread holds the GIL, and what it returns.
  s_pc, session, gil_held, py_traces,
  \* The process: whether ITIMER_PROF is armed, the disposition of SIGPROF,
  \* and PyCode_Type.tp_dealloc.
  timer_armed, sig_action, tp_dealloc,
  \* CodeDeallocHook::old_code_dealloc_ and ::deallocated_code_.
  old_code_dealloc_, deallocated_code_,
  \* The host's code records, by address.
  heap,
  \* History: per thread the session in which its handler was invoked, per
  \* session the handlers invoked, the code records sampled, per address the
  \* FuncLoc of the first record destroyed there in the session, whether
  \* GetFuncLoc was called on a destroyed record, and how Collect returned.
  h_session, sampled, sampled_code, first_death, queried_freed, exit_path,
  \* Profiler::duration_nanos_ in flush intervals, the time left until
  \* Collect's finish_line, and history: whether every sigaction call of the
  \* session has failed.
  duration_nanos_, remaining, set_action_failed,
  \* History: per session the handlers invoked in it whose Add returned
  \* false (session 0: handlers invoked on the table alone).
  add_false,
  \* What CodeDeallocHook's wrapper last called as old_code_dealloc_, and
  \* the CodeDeallocHook objects that are alive.
  delegated, hooks,
  \* The period on its way from profile_cpu's argument to setitimer: the
  \* position, ProfileCPU's period_msec, Profiler::period_nanos_, Start's
  \* period_usec, the timer's it_interval, and what Start returns.
  a_pc, period_msec, period_nanos_, period_usec, it_interval, start_result,
  \* Profiler::Handle's walk of the frame chain: its position, the thread
  \* state, the local frame, the buffer frames, the local num_frames, and
  \* the indices of the buffer written.
  k_pc, k_ts, k_frame, k_frames, k_num_frames, k_written,
  \* A fork: CPUProfiler::fork_handlers_registered_; the forking thread's
  \* position and signal mask; the timer and the disposition of SIGPROF
  \* in the parent; the profiling thread's position; the child's thread,
  \* its mask and its disposition; the number of forks; and where the
  \* forking thread and the child were when they ran the handler.
  fork_handlers_registered_, f_pc, f_mask, f_timer, f_action, f_session,
  c_pc, c_mask, c_action, c_registered, f_forks, f_handled_at, c_handled_at,
  \* One slot under the memory orders of its atomic operations: the
  \* modification orders of count and active_updates, each thread's view
  \* of them, position, input trace and local count, the slot's frame
  \* buffer, the Adds and Extracts begun, and per writer the trace that
  \* was stored when its compare-exchange raised the count.
  m_count, m_active, m_view, m_pc, m_in, m_local, m_buf, m_adds, m_drains,
  m_inc_stored,
  \* The time of Collect: its position, the clock (CLOCK_MONOTONIC),
  \* Profiler::duration_nanos_, Collect's finish_line, whether
  \* clock_nanosleep has returned EINVAL, and history: the clock at
  \* Py_BEGIN_ALLOW_THREADS and at Stop.
  t_pc, t_now, t_duration, t_finish, t_einval, t_begin, t_stopped,
  \* TraceMultiset::traces_ as the entries of the unordered_map, and history:
  \* what Extract has returned to HarvestSamples since the map was created.
  g_traces, g_extracted

asmVars == <<count, active_updates, trace>>
handlerVars == <<h_pc, h_trace, h_ts_null, h_i, h_count>>
drainVars == <<d_pc, d_loc, d_c, d_num_frames, d_frames, d_ret, d_caller>>
boundVars == <<started>>
addHist == <<calls, adds_true, h_log>>
slotHist == <<published, absorbed>>
drainHist == <<d_loaded, d_wrote>>
histVars == <<boundVars, addHist, slotHist, drainHist>>
profVars == <<unknown_stack_count_, aggregated_traces_>>
collectVars ==
  <<s_pc, session, gil_held, py_traces, timer_armed, sig_action, tp_dealloc,
    old_code_dealloc_, queried_freed, exit_path, duration_nanos_,
    set_action_failed>>
clockVars == <<remaining>>
hostVars == <<deallocated_code_, heap, first_death, delegated>>
sampleHist == <<h_session, sampled, sampled_code, add_false>>
sessVars == <<collectVars, clockVars, hostVars, sampleHist>>
\* The variables of the components that are modelled on their own.
argVars ==
  <<a_pc, period_msec, period_nanos_, period_usec, it_interval, start_result>>
walkVars == <<k_pc, k_ts, k_frame, k_frames, k_num_frames, k_written>>
forkVars ==
  <<fork_handlers_registered_, f_pc, f_mask, f_timer, f_action, f_session,
    c_pc, c_mask, c_action, c_registered, f_forks, f_handled_at,
    c_handled_at>>
orderVars ==
  <<m_count, m_active, m_view, m_pc, m_in, m_local, m_buf, m_adds, m_drains,
    m_inc_stored>>
timeVars ==
  <<t_pc, t_now, t_duration, t_finish, t_einval, t_begin, t_stopped>>
mapVars == <<g_traces, g_extracted>>
compVars == <<hooks, argVars, walkVars, forkVars, orderVars, timeVars, mapVars>>
vars ==
  <<asmVars, profVars, handlerVars, drainVars, histVars, sessVars, compVars>>

\* flush_interval = {0, 100 * 1000 * 1000}: the unit of time.
FlushInterval == 1

\* AlmostThere: margin_laps = 2
kMarginLaps == 2

\* The durations profile_cpu is called with, in flush intervals: none, and
\* the shortest with which the harvest loop runs.
Durations == {0, kMarginLaps * FlushInterval}

\* The it_interval of a timer that is not armed.
NoInterval == [tv_sec |-> 0, tv_usec |-> 0]

\* The sessions of a behaviour: at most two, one after the other.
Sessions == {1, 2}

\* d_loaded before Extract has loaded count; <<c>> once it has loaded c.
NoCount == <<>>

Init ==
  \* AsyncSafeTraceMultiset() { Reset(); } : memset(traces_, 0, ...)
  /\ count = [i \in Slots |-> 0]
  /\ active_updates = [i \in Slots |-> 0]
  /\ trace = [i \in Slots |-> <<>>]
  /\ unknown_stack_count_ = 0
  /\ aggregated_traces_ = <<>>
  /\ h_pc = [w \in Writers |-> "idle"]
  /\ h_trace = [w \in Writers |-> <<>>]
  /\ h_ts_null = [w \in Writers |-> FALSE]
  /\ h_i = [w \in Writers |-> 0]
  /\ h_count = [w \in Writers |-> 0]
  /\ d_pc = "idle"
  /\ d_loc = 0
  /\ d_c = 0
  /\ d_num_frames = 0
  /\ d_frames = <<>>
  /\ d_ret = 0
  /\ d_caller = "harvest"
  /\ started = 0
  /\ calls = [t \in AllTraces |-> 0]
  /\ adds_true = [t \in AllTraces |-> 0]
  /\ h_log = [w \in Writers |-> <<>>]
  /\ d_loaded = NoCount
  /\ d_wrote = FALSE
  /\ published = [i \in Slots |-> <<>>]
  /\ absorbed = [i \in Slots |-> 0]
  /\ s_pc = "idle"
  /\ session = 0
  /\ gil_held = FALSE
  /\ py_traces = "none"
  /\ timer_armed = FALSE
  /\ sig_action = "default"
  /\ tp_dealloc = HostCodeDealloc
  /\ old_code_dealloc_ = "nullptr"
  /\ deallocated_code_ = <<>>
  /\ heap = [a \in CodeAddrs |-> CodeRecord(TRUE, "f", 0)]
  /\ h_session = [w \in Writers |-> 0]
  /\ sampled = [s \in Sessions |-> 0]
  /\ sampled_code = {}
  /\ first_death = <<>>
  /\ queried_freed = FALSE
  /\ exit_path = "none"
  /\ duration_nanos_ = 0
  /\ remaining = 0
  /\ set_action_failed = FALSE
  /\ add_false = [s \in {0} \cup Sessions |-> 0]
  /\ hooks = 0
  /\ delegated = "none"
  /\ a_pc = "idle"
  /\ period_msec = BVFromInt(0)
  /\ period_nanos_ = BVFromInt(0)
  /\ period_usec = 0
  /\ it_interval = NoInterval
  /\ start_result = "none"
  /\ k_pc = "idle"
  /\ k_ts = NullTS
  /\ k_frame = <<>>
  /\ k_frames = <<>>
  /\ k_num_frames = 0
  /\ k_written = {}
  /\ fork_handlers_registered_ = FALSE
  /\ f_pc = "run"
  /\ f_mask = {}
  /\ f_timer = FALSE
  /\ f_action = "default"
  /\ f_session = "idle"
  /\ c_pc = "none"
  /\ c_mask = {}
  /\ c_action = "default"
  /\ c_registered = FALSE
  /\ f_forks = 0
  /\ f_handled_at = {}
  /\ c_handled_at = {}
  /\ m_count = <<[val |-> 0, view |-> [c |-> 1, a |-> 1]]>>
  /\ m_active = <<[val |-> 0, view |-> [c |-> 1, a |-> 1]]>>
  /\ m_view = [t \in 0 .. 2 |-> [c |-> 1, a |-> 1]]
  /\ m_pc = [t \in 0 .. 2 |-> "idle"]
  /\ m_in = [t \in 1 .. 2 |-> "none"]
  /\ m_local = [t \in 0 .. 2 |-> 0]
  /\ m_buf = "none"
  /\ m_adds = 0
  /\ m_drains = 0
  /\ m_inc_stored = [t \in 1 .. 2 |-> "none"]
  /\ t_pc = "idle"
  /\ t_now = [tv_sec |-> 0, tv_nsec |-> 0]
  /\ t_duration = 0
  /\ t_finish = [tv_sec |-> 0, tv_nsec |-> 0]
  /\ t_einval = FALSE
  /\ t_begin = 0
  /\ t_stopped = -1
  /\ g_traces = <<>>
  /\ g_extracted = <<>>

(***************************************************************************)
(* AsyncSafeTraceMultiset::Add, run by Profiler::Handle.  One action per   *)
(* access to the shared table.                                             *)
(***************************************************************************)
Idx(w) == ProbeIdx[h_trace[w], h_i[w]]

\* The field-by-field copy of Add into the slot's frame_buffer, and
\* entry.trace.num_frames.
CopyFrames(t) ==
  [k \in 1 .. Len(t) |-> [lineno |-> t[k].lineno, py_code |-> t[k].py_code]]

\* A comparison that would look at the innermost frame only.
InnermostFrameMatches(t, stored) ==
  Len(t) > 0 /\ Len(stored) > 0 /\ Equal(1, t, stored)

\* trace->num_frames == entry.trace.num_frames && Equal(...)
TraceMatches(t, stored) ==
  Len(t) = Len(stored) /\ Equal(Len(t), t, stored)

\* A second compare_exchange_weak that would install count + 2.
BumpedByTwo(c) == c + 2

\* The value Add's second compare_exchange_weak installs.
BumpedCount(c) == c + 1

LogWrite(w, field, old, new) ==
  h_log' = [h_log EXCEPT ![w] =
              Append(@, [slot |-> Idx(w), field |-> field, old |-> old,
                         new |-> new, stored |-> trace[Idx(w)]])]

\* The handler has returned: its locals are gone.
HandlerLeaves(w) ==
  /\ h_pc' = [h_pc EXCEPT ![w] = "idle"]
  /\ h_trace' = [h_trace EXCEPT ![w] = <<>>]
  /\ h_ts_null' = [h_ts_null EXCEPT ![w] = FALSE]
  /\ h_i' = [h_i EXCEPT ![w] = 0]
  /\ h_count' = [h_count EXCEPT ![w] = 0]
  /\ h_log' = [h_log EXCEPT ![w] = <<>>]

\* Handlers are anonymous: a new invocation takes the first idle thread.
FirstIdle(w) ==
  /\ h_pc[w] = "idle"
  /\ \A v \in Writers : h_pc[v] = "idle" => ~(v < w)

\* Profiler::Handle up to the call of Add: the trace is built from the
\* thread state.
HandleBegins(w, ts) ==
  /\ FirstIdle(w)
  /\ started' = started + 1
  /\ h_ts_null' = [h_ts_null EXCEPT ![w] = ts.is_null]
  /\ h_trace' = [h_trace EXCEPT ![w] = HandleTrace(ts)]
  /\ calls' = [calls EXCEPT ![HandleTrace(ts)] = @ + 1]
  /\ h_i' = [h_i EXCEPT ![w] = 0]
  /\ h_pc' = [h_pc EXCEPT ![w] = "fetch_add"]
  /\ UNCHANGED <<collectVars, clockVars, hostVars,
                 asmVars, profVars, h_count, drainVars, adds_true, h_log,
                 slotHist, drainHist>>

\* SIGPROF is delivered to a thread that runs no handler.
HandleStart(w, ts) ==
  started < MaxAdds /\ HandleBegins(w, ts) /\ UNCHANGED sampleHist

\* The value entry.active_updates.fetch_add(1, ...) leaves.
FetchAdd(v) == v + 1

\* A fetch_sub that would leave the value as it is.
FetchSubForgotten(v) == v

\* The value entry.active_updates.fetch_sub(1, ...) leaves.
FetchSub(v) == v - 1

\* entry.active_updates.fetch_add(1, acquire)
AddFetchAdd(w) ==
  /\ h_pc[w] = "fetch_add"
  /\ active_updates' = [active_updates EXCEPT ![Idx(w)] = FetchAdd(@)]
  /\ h_pc' = [h_pc EXCEPT ![w] = "load"]
  /\ UNCHANGED <<sessVars,
                 count, trace, profVars, h_trace, h_ts_null, h_i, h_count, drainVars,
                 histVars>>

\* count = entry.count.load(acquire); switch (count)
AddLoad(w) ==
  /\ h_pc[w] = "load"
  /\ h_count' = [h_count EXCEPT ![w] = count[Idx(w)]]
  /\ h_pc' = [h_pc EXCEPT ![w] =
                IF count[Idx(w)] = 0 THEN "cas_claim"
                ELSE IF count[Idx(w)] = kTraceCountLocked THEN "release"
                ELSE "compare"]
  /\ UNCHANGED <<sessVars,
                 asmVars, profVars, h_trace, h_ts_null, h_i, drainVars, histVars>>

\* case 0: entry.count.compare_exchange_weak(count_zero, kTraceCountLocked).
\* A weak compare-exchange may also fail when the value is the expected one.
AddClaimCas(w) ==
  /\ h_pc[w] = "cas_claim"
  /\ \/ /\ count[Idx(w)] = 0
        /\ count' = [count EXCEPT ![Idx(w)] = kTraceCountLocked]
        /\ LogWrite(w, "count", 0, kTraceCountLocked)
        /\ h_pc' = [h_pc EXCEPT ![w] = "dec_claim"]
     \/ /\ h_pc' = [h_pc EXCEPT ![w] = "release"]
        /\ UNCHANGED <<sessVars,
                 count, h_log>>
  /\ UNCHANGED <<sessVars,
                 active_updates, trace, profVars, h_trace, h_ts_null, h_i, h_count,
                 drainVars, boundVars, calls, adds_true, slotHist, drainHist>>

\* The entry is reserved: entry.active_updates.fetch_sub(1, release) early.
AddClaimDec(w) ==
  /\ h_pc[w] = "dec_claim"
  /\ active_updates' = [active_updates EXCEPT ![Idx(w)] = FetchSub(@)]
  /\ h_pc' = [h_pc EXCEPT ![w] = "copy"]
  /\ UNCHANGED <<sessVars,
                 count, trace, profVars, h_trace, h_ts_null, h_i, h_count, drainVars,
                 histVars>>

\* The frames are copied into frame_buffer; entry.trace is set.
AddCopy(w) ==
  /\ h_pc[w] = "copy"
  /\ trace' = [trace EXCEPT ![Idx(w)] = CopyFrames(h_trace[w])]
  /\ LogWrite(w, "frames", trace[Idx(w)], CopyFrames(h_trace[w]))
  /\ h_pc' = [h_pc EXCEPT ![w] = "publish"]
  /\ UNCHANGED <<sessVars,
                 count, active_updates, profVars, h_trace, h_ts_null, h_i, h_count,
                 drainVars, boundVars, calls, adds_true, slotHist, drainHist>>

\* entry.count.store(1, release); return true
AddPublish(w) ==
  /\ h_pc[w] = "publish"
  /\ count' = [count EXCEPT ![Idx(w)] = 1]
  /\ published' = [published EXCEPT ![Idx(w)] = h_trace[w]]
  /\ absorbed' = [absorbed EXCEPT ![Idx(w)] = 1]
  /\ adds_true' = [adds_true EXCEPT ![h_trace[w]] = @ + 1]
  /\ HandlerLeaves(w)
  /\ UNCHANGED <<sessVars,
                 active_updates, trace, profVars, drainVars, boundVars,
                 calls, drainHist>>

\* default: the stored trace is compared with the input.
AddCompare(w) ==
  /\ h_pc[w] = "compare"
  /\ h_pc' = [h_pc EXCEPT ![w] =
                IF TraceMatches(h_trace[w], trace[Idx(w)]) THEN "reload"
                ELSE "release"]
  /\ UNCHANGED <<sessVars,
                 asmVars, profVars, h_trace, h_ts_null, h_i, h_count, drainVars,
                 histVars>>

\* count = entry.count.load(relaxed); if (count != kTraceCountLocked && ...
AddReload(w) ==
  /\ h_pc[w] = "reload"
  /\ h_count' = [h_count EXCEPT ![w] = count[Idx(w)]]
  /\ h_pc' = [h_pc EXCEPT ![w] =
                IF count[Idx(w)] # kTraceCountLocked THEN "cas_inc"
                ELSE "release"]
  /\ UNCHANGED <<sessVars,
                 asmVars, profVars, h_trace, h_ts_null, h_i, drainVars, histVars>>

\* entry.count.compare_exchange_weak(count, count + 1)
AddIncCas(w) ==
  /\ h_pc[w] = "cas_inc"
  /\ \/ /\ count[Idx(w)] = h_count[w]
        /\ count' = [count EXCEPT ![Idx(w)] = BumpedCount(h_count[w])]
        /\ LogWrite(w, "count", h_count[w], BumpedCount(h_count[w]))
        /\ absorbed' = [absorbed EXCEPT ![Idx(w)] = @ + 1]
        /\ h_pc' = [h_pc EXCEPT ![w] = "dec_inc"]
     \/ /\ h_pc' = [h_pc EXCEPT ![w] = "release"]
        /\ UNCHANGED <<sessVars,
                 count, h_log, absorbed>>
  /\ UNCHANGED <<sessVars,
                 active_updates, trace, profVars, h_trace, h_ts_null, h_i, h_count,
                 drainVars, boundVars, calls, adds_true, published,
                 drainHist>>

\* entry.active_updates.fetch_sub(1, release); return true
AddIncDec(w) ==
  /\ h_pc[w] = "dec_inc"
  /\ active_updates' = [active_updates EXCEPT ![Idx(w)] = FetchSub(@)]
  /\ adds_true' = [adds_true EXCEPT ![h_trace[w]] = @ + 1]
  /\ HandlerLeaves(w)
  /\ UNCHANGED <<sessVars,
                 count, trace, profVars, drainVars, boundVars, calls,
                 slotHist, drainHist>>

\* A loop that would probe the same slot again.
ProbeAgain(i) == i

\* for (...; i++)
NextProbe(i) == i + 1

\* Did nothing: entry.active_updates.fetch_sub(1, release) and the next i;
\* after MaxEntries() probes, return false.
AddRelease(w) ==
  /\ h_pc[w] = "release"
  /\ active_updates' = [active_updates EXCEPT ![Idx(w)] = FetchSub(@)]
  /\ IF NextProbe(h_i[w]) < NumSlots
       THEN /\ h_i' = [h_i EXCEPT ![w] = NextProbe(@)]
            /\ h_pc' = [h_pc EXCEPT ![w] = "fetch_add"]
       ELSE /\ h_i' = h_i
            /\ h_pc' = [h_pc EXCEPT ![w] = "ret_false"]
  /\ UNCHANGED <<sessVars,
                 count, trace, profVars, h_trace, h_ts_null, h_count, drainVars,
                 histVars>>

\* Add returned false: unknown_stack_count_++; return.
HandleUnknown(w) ==
  /\ h_pc[w] = "ret_false"
  /\ unknown_stack_count_' = unknown_stack_count_ + 1
  /\ add_false' = [add_false EXCEPT ![h_session[w]] = @ + 1]
  /\ HandlerLeaves(w)
  /\ UNCHANGED <<collectVars, clockVars, hostVars, h_session, sampled,
                 sampled_code,
                 asmVars, aggregated_traces_, drainVars, boundVars, calls,
                 adds_true, slotHist, drainHist>>

AddStep(w) ==
  \/ AddFetchAdd(w)
  \/ AddLoad(w)
  \/ AddClaimCas(w)
  \/ AddClaimDec(w)
  \/ AddCopy(w)
  \/ AddPublish(w)
  \/ AddCompare(w)
  \/ AddReload(w)
  \/ AddIncCas(w)
  \/ AddIncDec(w)
  \/ AddRelease(w)
  \/ HandleUnknown(w)

(***************************************************************************)
(* AsyncSafeTraceMultiset::Extract, TraceMultiset::Add and HarvestSamples. *)
(***************************************************************************)
\* location < 0 || location >= MaxEntries()
OutOfRange(location) == location < 0 \/ location >= NumSlots

\* An Extract that would skip locked slots only.
ExtractSkipsLocked(c) == c < 0

\* if (c <= 0): unused or in process of being updated, skip for now.
ExtractSkips(c) == c <= 0

\* An Extract that would report the count of its first load.
LoadedCount(loaded, exchanged) == loaded

\* c = entry.count.exchange(kTraceCountLocked, acquire): the count Extract
\* reports is the exchanged one, not the one its first load saw.
ExtractedCount(loaded, exchanged) == exchanged

\* if (num_frames > 0 && count > 0) in HarvestSamples.
HarvestKeeps(num_frames, c) == num_frames > 0 /\ c > 0

\* TraceMultiset::Add
TraceMultisetAdd(traces, t, c) ==
  IF t \in DOMAIN traces THEN [traces EXCEPT ![t] = @ + c]
  ELSE [u \in DOMAIN traces \cup {t} |-> IF u = t THEN c ELSE traces[u]]

\* HarvestSamples begins: i = 0.
HarvestBegins ==
  /\ d_pc = "idle"
  /\ d_pc' = "ext_load"
  /\ d_loc' = 0
  /\ d_caller' = "harvest"
  /\ UNCHANGED <<asmVars, profVars, handlerVars, d_c, d_num_frames, d_frames,
                 d_ret, histVars>>

\* HarvestSamples called on the table alone.
HarvestStart == HarvestBegins /\ UNCHANGED sessVars

\* Extract called by another caller than HarvestSamples with a location
\* outside the table.
ExtractOutside(location) ==
  /\ d_pc = "idle"
  /\ OutOfRange(location)
  /\ d_pc' = "ext_load"
  /\ d_loc' = location
  /\ d_caller' = "direct"
  /\ UNCHANGED <<sessVars,
                 asmVars, profVars, handlerVars, d_c, d_num_frames, d_frames,
                 d_ret, histVars>>

\* The range check, c = entry.count.load(acquire), and the early returns.
ExtractLoad ==
  /\ d_pc = "ext_load"
  /\ IF OutOfRange(d_loc)
       THEN /\ d_ret' = 0
            /\ d_pc' = "ext_ret"
            /\ UNCHANGED <<sessVars,
                 d_c, d_loaded>>
       ELSE /\ d_c' = count[d_loc]
            /\ d_loaded' = <<count[d_loc]>>
            /\ IF ExtractSkips(count[d_loc])
                 THEN d_ret' = 0 /\ d_pc' = "ext_ret"
                 ELSE d_ret' = d_ret /\ d_pc' = "ext_xchg"
  /\ UNCHANGED <<sessVars,
                 asmVars, profVars, handlerVars, d_loc, d_num_frames,
                 d_frames, d_caller, boundVars, addHist, slotHist, d_wrote>>

\* num_frames = entry.trace.num_frames, capped by max_frames;
\* c = entry.count.exchange(kTraceCountLocked, acquire); the frames are
\* copied out of the slot.  The two reads of the slot's trace are made with
\* the exchange: the slot's trace is written only by an Add that holds the
\* slot locked, and no Add does while this slot's count is positive or
\* locked by Extract.
ExtractExchange ==
  /\ d_pc = "ext_xchg"
  /\ d_num_frames' = Min(Len(trace[d_loc]), kMaxFramesToCapture)
  /\ d_c' = ExtractedCount(d_c, count[d_loc])
  /\ count' = [count EXCEPT ![d_loc] = kTraceCountLocked]
  /\ d_frames' = SubSeq(trace[d_loc], 1,
                        Min(Len(trace[d_loc]), kMaxFramesToCapture))
  /\ d_wrote' = TRUE
  /\ d_pc' = "ext_spin"
  /\ UNCHANGED <<sessVars,
                 active_updates, trace, profVars, handlerVars, d_loc, d_ret,
                 d_caller, boundVars, addHist, slotHist, d_loaded>>

\* while (entry.active_updates.load(acquire) != 0) { spin }
ExtractSpin ==
  /\ d_pc = "ext_spin"
  /\ active_updates[d_loc] = 0
  /\ d_pc' = "ext_store"
  /\ UNCHANGED <<sessVars,
                 asmVars, profVars, handlerVars, d_loc, d_c, d_num_frames,
                 d_frames, d_ret, d_caller, histVars>>

\* entry.count.store(0, release)
ExtractStore ==
  /\ d_pc = "ext_store"
  /\ count' = [count EXCEPT ![d_loc] = 0]
  /\ d_ret' = d_num_frames
  /\ d_pc' = "ext_ret"
  /\ UNCHANGED <<sessVars,
                 active_updates, trace, profVars, handlerVars, d_loc, d_c,
                 d_num_frames, d_frames, d_caller, histVars>>

\* *count = c; return num_frames.  In HarvestSamples the result is added to
\* the growable multiset and the loop goes on, or HarvestSamples returns.
ExtractReturn ==
  /\ d_pc = "ext_ret"
  /\ IF d_caller = "harvest"
       THEN /\ aggregated_traces_' =
                 IF HarvestKeeps(d_ret, d_c)
                   THEN TraceMultisetAdd(aggregated_traces_, d_frames, d_c)
                   ELSE aggregated_traces_
            /\ d_loc' = IF d_loc + 1 < NumSlots THEN d_loc + 1 ELSE 0
            /\ d_pc' = IF d_loc + 1 < NumSlots THEN "ext_load" ELSE "idle"
       ELSE /\ aggregated_traces_' = aggregated_traces_
            /\ d_loc' = 0
            /\ d_pc' = "idle"
  /\ d_c' = 0
  /\ d_num_frames' = 0
  /\ d_frames' = <<>>
  /\ d_ret' = 0
  /\ d_caller' = "harvest"
  /\ d_loaded' = NoCount
  /\ d_wrote' = FALSE
  /\ UNCHANGED <<sessVars,
                 asmVars, unknown_stack_count_, handlerVars, boundVars,
                 addHist, slotHist>>

ExtractStep ==
  \/ ExtractLoad
  \/ ExtractExchange
  \/ ExtractSpin
  \/ ExtractStore
  \/ ExtractReturn

(***************************************************************************)
(* The table under concurrent handlers and one harvesting thread.          *)
(***************************************************************************)
Next ==
  \/ \E w \in Writers : \E ts \in TableThreadStates : HandleStart(w, ts)
       /\ UNCHANGED compVars
  \/ \E w \in Writers : AddStep(w) /\ UNCHANGED compVars
  \/ HarvestStart /\ UNCHANGED compVars
  \/ \E location \in {-1, NumSlots} : ExtractOutside(location)
       /\ UNCHANGED compVars
  \/ ExtractStep /\ UNCHANGED compVars

Spec == Init /\ [][Next]_vars


(***************************************************************************)
(* Properties of the table and the harvest, under Spec.                    *)
(***************************************************************************)
RECURSIVE SumOver(_, _)
SumOver(f, S) ==
  IF S = {} THEN 0
  ELSE LET x == CHOOSE y \in S : TRUE IN f[x] + SumOver(f, S \ {x})

\* No Add, no Extract and no HarvestSamples is running.
Quiescent == d_pc = "idle" /\ \A w \in Writers : h_pc[w] = "idle"

\* The count the growable multiset holds for a trace.
GMCount(t) ==
  IF t \in DOMAIN aggregated_traces_ THEN aggregated_traces_[t] ELSE 0

GMTotal == SumOver(aggregated_traces_, DOMAIN aggregated_traces_)

AddsReturnedTrue == SumOver(adds_true, AllTraces)

\* The positive counts resident in the fixed table, in all and per trace.
ResidentCount ==
  SumOver([i \in Slots |-> IF count[i] > 0 THEN count[i] ELSE 0], Slots)

ResidentOf(t) ==
  SumOver([i \in Slots |-> IF count[i] > 0 /\ trace[i] = t THEN count[i]
                           ELSE 0], Slots)

\* C1: once every Add and the harvest have completed, the counts of the
\* growable multiset sum to the number of Add calls that returned true minus
\* the positive counts still resident in the fixed table.
C1_SampleConservation ==
  Quiescent => GMTotal = AddsReturnedTrue - ResidentCount

\* A sample is lost: an Add of the zero-frame trace returned true, all
\* operations have completed, and neither the table nor the growable
\* multiset holds a count.
C1_ZeroFrameSampleLost ==
  /\ Quiescent
  /\ adds_true[<<>>] = 1
  /\ ResidentCount = 0
  /\ GMTotal = 0

\* Conservation per trace, for the traces that have a frame: what the code
\* guarantees.
NonEmptyTracesConserved ==
  Quiescent =>
    \A t \in AllTraces :
      Len(t) > 0 => GMCount(t) + ResidentOf(t) = adds_true[t]


\* The step with which the Add of thread w returns true.
AddReturnsTrue(w) ==
  h_pc[w] \in {"publish", "dec_inc"} /\ h_pc'[w] = "idle"

\* The writes to the table's counts and frames that the returning Add has
\* made, its returning step's write included.
WritesOfAdd(w) ==
  IF h_pc[w] = "publish"
    THEN Append(h_log[w],
                [slot |-> Idx(w), field |-> "count", old |-> count[Idx(w)],
                 new |-> count'[Idx(w)], stored |-> trace[Idx(w)]])
    ELSE h_log[w]

\* The Add claimed slot s, whose count was 0, and published it with count 1
\* and frames equal to its input.
ClaimedAndPublished(log, t) ==
  /\ Len(log) = 3
  /\ \A k \in 1 .. 3 : log[k].slot = log[1].slot
  /\ log[1].field = "count" /\ log[1].old = 0
  /\ log[1].new = kTraceCountLocked
  /\ log[2].field = "frames" /\ log[2].new = t
  /\ log[3].field = "count" /\ log[3].old = kTraceCountLocked
  /\ log[3].new = 1 /\ log[3].stored = t

\* The Add raised by one the positive count of a slot that stored its input.
RaisedByOne(log, t) ==
  /\ Len(log) = 1
  /\ log[1].field = "count" /\ log[1].old > 0
  /\ log[1].new = log[1].old + 1
  /\ log[1].stored = t

C4_ExtractEmptyLeavesSlot ==
  d_pc = "ext_ret" =>
    /\ (OutOfRange(d_loc) \/ d_loaded = <<0>>
          \/ d_loaded = <<kTraceCountLocked>>)
         => d_ret = 0 /\ ~d_wrote
    /\ d_ret > 0 =>
         ~OutOfRange(d_loc) /\ d_loaded # NoCount /\ d_loaded[1] > 0

\* Extract is about to return empty from a slot it found locked by a writer.
C4_ReturnsEmptyFromLockedSlot ==
  /\ d_pc = "ext_ret"
  /\ d_loaded = <<kTraceCountLocked>>
  /\ d_ret = 0
  /\ count[d_loc] = kTraceCountLocked


AfterFinalHarvest == Quiescent /\ \A i \in Slots : count[i] = 0

\* Only t1 and t2 have been added, m times each.
AddedEach(t1, t2, m) ==
  /\ t1 # t2
  /\ m > 0
  /\ calls[t1] = m /\ calls[t2] = m
  /\ \A t \in AllTraces \ {t1, t2} : calls[t] = 0

C8_AnAddFailed ==
  /\ AfterFinalHarvest
  /\ \E t1, t2 \in AllTraces : AddedEach(t1, t2, 1)
  /\ unknown_stack_count_ > 0


\* Extract is about to return non-empty, and a writer has claimed and
\* published the slot again since Extract's store of 0.
C5_SlotReclaimedBeforeReturn ==
  /\ d_pc = "ext_ret"
  /\ d_ret > 0
  /\ count[d_loc] = 1
  /\ published[d_loc] # d_frames


(***************************************************************************)
(* The table used by one thread at a time: a handler runs only while no    *)
(* other handler and no Extract runs, and a harvest only while no handler  *)
(* runs.  The thread states are all those the host can present.            *)
(***************************************************************************)
SeqHandleStart(w, ts) ==
  /\ Quiescent
  /\ started < MaxSeqAdds
  /\ HandleBegins(w, ts)
  /\ UNCHANGED sampleHist

SeqHarvestStart == Quiescent /\ HarvestStart

SeqExtractOutside(location) == Quiescent /\ ExtractOutside(location)

SeqNext ==
  \/ \E w \in Writers, ts \in ThreadStates : SeqHandleStart(w, ts)
       /\ UNCHANGED compVars
  \/ \E w \in Writers : AddStep(w) /\ UNCHANGED compVars
  \/ SeqHarvestStart /\ UNCHANGED compVars
  \/ \E location \in {-1, NumSlots} : SeqExtractOutside(location)
       /\ UNCHANGED compVars
  \/ ExtractStep /\ UNCHANGED compVars
  \/ ExtractReturn /\ UNCHANGED compVars

SpecSeq == Init /\ [][SeqNext]_vars

\* An Add runs in thread w.
AddRunning(w) == h_pc[w] # "idle"

\* All N slots hold published entries and none of the stored traces is t.
TableFullWithout(t) == \A i \in Slots : count[i] > 0 /\ trace[i] # t

\* The Add of thread w has neither claimed nor matched a slot.
AddWithoutSlot(w) ==
  h_pc[w] \in {"fetch_add", "load", "compare", "release", "ret_false"}

\* The handler invocations that have completed after an Add that returned
\* false.
HandlersOfFailedAdds ==
  SumOver(calls, AllTraces) - AddsReturnedTrue
    - Cardinality({w \in Writers : AddRunning(w)})

\* C3 as stated: with no other Add and no Extract in progress, Add(t)
\* returns false if and only if all N slots hold published entries none of
\* which stores t.
C3_FalseIffFull ==
  \A w \in Writers :
    /\ h_pc[w] = "ret_false" => TableFullWithout(h_trace[w])
    /\ (AddRunning(w) /\ TableFullWithout(h_trace[w])) => AddWithoutSlot(w)

\* C3, amended: with no other Add and no Extract in progress, an Add(t) that
\* finds all N slots holding published entries none of which stores t claims
\* and matches no slot and returns false, and the handler has incremented
\* unknown_stack_count_ by exactly one for each Add that returned false; an
\* Add may also return false while a slot is empty or stores t.
C3_FullTableAddFails ==
  /\ \A w \in Writers :
       (AddRunning(w) /\ TableFullWithout(h_trace[w])) => AddWithoutSlot(w)
  /\ unknown_stack_count_ = HandlersOfFailedAdds

\* N distinct traces were added without a drain, each slot holds one of them
\* with count 1, and the Add of a further distinct trace has returned false.
C3_FurtherTraceFails ==
  \E w \in Writers :
    /\ h_pc[w] = "ret_false"
    /\ TableFullWithout(h_trace[w])
    /\ \A i \in Slots : count[i] = 1
    /\ \A i, j \in Slots : i # j => trace[i] # trace[j]
    /\ AddsReturnedTrue = NumSlots
    /\ unknown_stack_count_ = 0

\* An Add has returned false from an empty table.
C3_FailsOnEmptyTable ==
  \E w \in Writers :
    /\ h_pc[w] = "ret_false"
    /\ \A i \in Slots : count[i] = 0


(***************************************************************************)
(* The host's code records, CodeDeallocHook and the resolution of frames.  *)
(***************************************************************************)
\* Most records allocated at one address after the first one.
MaxAllocs == 1

\* FuncLoc { name, filename }
FuncLoc(name, filename) == [name |-> name, filename |-> filename]

\* GetFuncLoc: co_name and co_filename of the code record.
GetFuncLoc(code_object) == FuncLoc(code_object.name, "app.py")

\* An insert that would replace the entry of a key already present.
InsertOverwrites(map, key, value) ==
  [k \in DOMAIN map \cup {key} |-> IF k = key THEN value ELSE map[k]]

\* A wrapper that would record nothing.
InsertDropped(map, key, value) == map

\* std::unordered_map::insert: an entry whose key is present is kept.
MapInsert(map, key, value) ==
  IF key \in DOMAIN map THEN map
  ELSE [k \in DOMAIN map \cup {key} |-> IF k = key THEN value ELSE map[k]]

\* The addresses of the code records a trace refers to.
CodesOf(t) == {t[k].py_code : k \in 1 .. Len(t)} \ {NullPtr}

\* A handler that is running has interrupted its thread inside these frames:
\* their code records are referenced, and cannot die.
Referenced(a) ==
  \E w \in Writers : h_pc[w] # "idle" /\ a \in CodesOf(h_trace[w])

\* The host calls PyCode_Type.tp_dealloc on a code record.  The host's own
\* destructor frees the record.  The wrapper CodeDealloc enters the record's
\* FuncLoc in deallocated_code_ and calls old_code_dealloc_: the host's
\* destructor, or, when old_code_dealloc_ is the wrapper, the wrapper again
\* and without end.
TpDealloc(a) ==
  /\ heap[a].live
  /\ IF tp_dealloc = HookCodeDealloc
       THEN /\ deallocated_code_' =
                 MapInsert(deallocated_code_, a, GetFuncLoc(heap[a]))
            /\ first_death' =
                 IF a \in DOMAIN first_death THEN first_death
                 ELSE [k \in DOMAIN first_death \cup {a} |->
                         IF k = a THEN GetFuncLoc(heap[a])
                         ELSE first_death[k]]
            /\ delegated' = old_code_dealloc_
            /\ heap' = IF old_code_dealloc_ = HostCodeDealloc
                         THEN [heap EXCEPT
                                 ![a] = CodeRecord(FALSE, @.name, @.gen)]
                         ELSE heap
       ELSE /\ heap' = [heap EXCEPT ![a] = CodeRecord(FALSE, @.name, @.gen)]
            /\ UNCHANGED <<deallocated_code_, first_death, delegated>>

\* A code record's last reference goes while another thread than Collect's
\* holds the GIL: PyCode_Type.tp_dealloc is called, which is the hook's
\* CodeDealloc while the hook is installed.
CodeDealloc(a) ==
  /\ ~gil_held
  /\ s_pc # "idle"
  /\ ~Referenced(a)
  /\ TpDealloc(a)
  /\ UNCHANGED <<asmVars, profVars, handlerVars, drainVars, histVars,
                 collectVars, clockVars, sampleHist>>

\* The host allocates a code record at an address that is free.  Records
\* that die or are allocated while no session runs are left out: no session
\* samples them or sees them die.
CodeAlloc(a, name) ==
  /\ ~gil_held
  /\ s_pc # "idle"
  /\ ~heap[a].live
  /\ heap[a].gen < MaxAllocs
  /\ heap' = [heap EXCEPT ![a] = CodeRecord(TRUE, name, @.gen + 1)]
  /\ UNCHANGED <<asmVars, profVars, handlerVars, drainVars, histVars,
                 collectVars, clockVars, sampleHist, deallocated_code_,
                 first_death, delegated>>

\* CallTraceErrorToName
CallTraceErrorToName(err) ==
  IF err = kNoPyState THEN "[Unknown - No Python thread state]"
  ELSE "[Unknown]"

\* The frame is resolved by a query of a record that has been destroyed.
QueriesFreed(frame, map, records) ==
  /\ frame.py_code # NullPtr
  /\ frame.py_code \notin DOMAIN map
  /\ ~records[frame.py_code].live

\* A resolution that would query the record at the address when one is
\* alive there, and look in the map only for a dead one.
ResolveLiveFirst(frame, map, records) ==
  IF frame.py_code = NullPtr
    THEN FuncLoc(CallTraceErrorToName(frame.lineno), "")
  ELSE IF records[frame.py_code].live THEN GetFuncLoc(records[frame.py_code])
  ELSE IF frame.py_code \in DOMAIN map THEN map[frame.py_code]
  ELSE GetFuncLoc(records[frame.py_code])

\* The FuncLoc PythonTraces finds for a frame: the error's name for a null
\* code pointer, else what CodeDeallocHook::Find finds, else what GetFuncLoc
\* reads from the record.
ResolveFrame(frame, map, records) ==
  IF frame.py_code = NullPtr
    THEN FuncLoc(CallTraceErrorToName(frame.lineno), "")
  ELSE IF frame.py_code \in DOMAIN map THEN map[frame.py_code]
  ELSE GetFuncLoc(records[frame.py_code])

\* py_frames: the tuple of (name, filename, lineno) built for a trace.
PyFrames(t, map, records) ==
  [k \in 1 .. Len(t) |->
     <<ResolveFrame(t[k], map, records).name,
       ResolveFrame(t[k], map, records).filename, t[k].lineno>>]

\* A count that would replace the one already in the dictionary.
ReplacedCount(previous_count, c) == c

\* count += previous_count
MergedCount(previous_count, c) == c + previous_count

\* The loop of PythonTraces over aggregated_traces_: the dictionary py_traces
\* after the traces in todo have been entered.
RECURSIVE PyTraces(_, _, _, _, _)
PyTraces(dict, todo, traces, map, records) ==
  IF todo = {} THEN dict
  ELSE LET t == CHOOSE u \in todo : TRUE
           py_frames == PyFrames(t, map, records)
           c == IF py_frames \in DOMAIN dict
                  THEN MergedCount(dict[py_frames], traces[t])
                  ELSE traces[t]
       IN PyTraces([k \in DOMAIN dict \cup {py_frames} |->
                      IF k = py_frames THEN c ELSE dict[k]],
                   todo \ {t}, traces, map, records)

\* The frame of the synthetic trace that carries unknown_stack_count_.
FakeFrame == [lineno |-> kUnknown, py_code |-> NullPtr]

\* A PythonTraces that would not add the synthetic trace.
WithoutUnknown(traces, unknown) == traces

\* aggregated_traces_ after PythonTraces has added the synthetic trace:
\* if (unknown_stack_count_ > 0) aggregated_traces_.Add(1, &fakeFrame, ...)
WithUnknown(traces, unknown) ==
  IF unknown > 0 THEN TraceMultisetAdd(traces, <<FakeFrame>>, unknown)
  ELSE traces


(***************************************************************************)
(* ProfileCPU and CPUProfiler::Collect, one action per step of the         *)
(* collecting thread.                                                      *)
(***************************************************************************)
\* What sigaction(SIGPROF, &sa, &old_handler) leaves as the disposition of
\* SIGPROF: the new action, or on failure the one there was.  SetAction
\* returns old_handler either way, and Reset does not look at it.
SetAction(ok, action, disposition) == IF ok THEN action ELSE disposition

\* Profiler::Reset: the fixed table is zeroed, CodeDeallocHook::Reset clears
\* the map, unknown_stack_count_ = 0, and Handle is installed for SIGPROF,
\* or is not when sigaction fails.
ProfilerReset(ok) ==
  /\ count' = [i \in Slots |-> 0]
  /\ active_updates' = [i \in Slots |-> 0]
  /\ trace' = [i \in Slots |-> <<>>]
  /\ published' = [i \in Slots |-> <<>>]
  /\ absorbed' = [i \in Slots |-> 0]
  /\ deallocated_code_' = <<>>
  /\ first_death' = <<>>
  /\ unknown_stack_count_' = 0
  /\ sig_action' = SetAction(ok, "handle", sig_action)

\* ProfileCPU(duration_nanos, period_msec), called with the GIL held:
\* CPUProfiler p(...), whose base Profiler's constructor calls Reset().  The
\* object has its own, empty aggregated_traces_.
ProfileCPU ==
  /\ s_pc = "idle"
  /\ session + 1 \in Sessions
  /\ session' = session + 1
  /\ gil_held' = TRUE
  /\ aggregated_traces_' = <<>>
  /\ py_traces' = "none"
  /\ exit_path' = "none"
  /\ \E duration_nanos \in Durations : duration_nanos_' = duration_nanos
  /\ \E ok \in BOOLEAN :
       /\ ProfilerReset(ok)
       /\ set_action_failed' = ~ok
  /\ s_pc' = "constructed"
  /\ UNCHANGED <<handlerVars, drainVars, boundVars, addHist, drainHist,
                 timer_armed, tp_dealloc, old_code_dealloc_, queried_freed,
                 clockVars, heap, delegated, sampleHist>>

\* Collect: Reset();
CollectReset ==
  /\ s_pc = "constructed"
  /\ \E ok \in BOOLEAN :
       /\ ProfilerReset(ok)
       /\ set_action_failed' = (set_action_failed /\ ~ok)
  /\ s_pc' = "reset"
  /\ UNCHANGED <<aggregated_traces_, handlerVars, drainVars, boundVars,
                 addHist, drainHist, session, gil_held, py_traces,
                 timer_armed, tp_dealloc, old_code_dealloc_, queried_freed,
                 exit_path, duration_nanos_, clockVars, heap, delegated,
                 sampleHist>>

\* CodeDeallocHook(): Reset(); old_code_dealloc_ = PyCode_Type.tp_dealloc;
\* PyCode_Type.tp_dealloc = &CodeDealloc.
HookConstructed ==
  /\ deallocated_code_' = <<>>
  /\ first_death' = <<>>
  /\ old_code_dealloc_' = tp_dealloc
  /\ tp_dealloc' = HookCodeDealloc

\* Collect: CodeDeallocHook dealloc_hook;
HookInstall ==
  /\ s_pc = "reset"
  /\ HookConstructed
  /\ s_pc' = "hooked"
  /\ UNCHANGED <<asmVars, profVars, handlerVars, drainVars, histVars,
                 session, gil_held, py_traces, timer_armed, sig_action,
                 queried_freed, exit_path, duration_nanos_,
                 set_action_failed, clockVars, heap, delegated, sampleHist>>

\* What setitimer does with the interval SetSigprofInterval passes: it arms
\* ITIMER_PROF, it disarms it (the interval is zero), or it fails.
SetitimerOutcomes == {"armed", "disarmed", "failed"}

\* SetSigprofInterval: the timer after setitimer, and the result.
TimerAfter(outcome, armed) ==
  IF outcome = "failed" THEN armed ELSE outcome = "armed"

SetSigprofIntervalResult(outcome) == outcome # "failed"

\* A Collect that would go on whatever Start returns.
StartResultIgnored(ok) == "started"

\* if (!Start()) return nullptr;
AfterStart(ok) == IF ok THEN "started" ELSE "returning"

Start ==
  /\ s_pc = "hooked"
  /\ \E outcome \in SetitimerOutcomes :
       /\ timer_armed' = TimerAfter(outcome, timer_armed)
       /\ s_pc' = AfterStart(SetSigprofIntervalResult(outcome))
       /\ IF SetSigprofIntervalResult(outcome)
            THEN UNCHANGED <<py_traces, exit_path>>
            ELSE /\ py_traces' = "nullptr"
                 /\ exit_path' = "start_failed"
  /\ UNCHANGED <<asmVars, profVars, handlerVars, drainVars, histVars,
                 session, gil_held, sig_action, tp_dealloc,
                 old_code_dealloc_, queried_freed, duration_nanos_,
                 set_action_failed, clockVars, hostVars, sampleHist>>

\* Py_BEGIN_ALLOW_THREADS; finish_line = TimeAdd(clock->Now(),
\* NanosToTimeSpec(duration_nanos_)): the whole duration remains.
BeginAllowThreads ==
  /\ s_pc = "started"
  /\ gil_held' = FALSE
  /\ remaining' = duration_nanos_
  /\ s_pc' = "loop"
  /\ UNCHANGED <<asmVars, profVars, handlerVars, drainVars, histVars,
                 session, py_traces, timer_armed, sig_action, tp_dealloc,
                 old_code_dealloc_, queried_freed, exit_path,
                 duration_nanos_, set_action_failed, hostVars, sampleHist>>

\* An AlmostThere without its margin of laps.
AlmostThereNoMargin(left, lap) == left < 0

\* AlmostThere(finish, lap): finish < now + margin_laps * lap.
AlmostThere(left, lap) == left < kMarginLaps * lap

\* The time left after a sleep.
TimeLeft(left, slept) == IF left > slept THEN left - slept ELSE 0

\* while (!AlmostThere(finish_line, flush_interval)) {
\*   clock->SleepFor(flush_interval); Flush(); }
LoopFlush ==
  /\ s_pc = "loop"
  /\ ~AlmostThere(remaining, FlushInterval)
  /\ remaining' = TimeLeft(remaining, FlushInterval)
  /\ HarvestBegins
  /\ UNCHANGED <<collectVars, hostVars, sampleHist>>

\* A Stop that would leave the disposition of SIGPROF as it is.
StopDispositionKept(disposition) == disposition

\* signal(SIGPROF, SIG_IGN)
StopDisposition(disposition) == "ignore"

\* clock->SleepUntil(finish_line); Stop(): handler_.SetSigprofInterval(0)
Stop ==
  /\ s_pc = "loop"
  /\ d_pc = "idle"
  /\ AlmostThere(remaining, FlushInterval)
  /\ remaining' = 0
  /\ timer_armed' = FALSE
  /\ s_pc' = "stopping"
  /\ UNCHANGED <<asmVars, profVars, handlerVars, drainVars, histVars,
                 session, gil_held, py_traces, sig_action, tp_dealloc,
                 old_code_dealloc_, queried_freed, exit_path,
                 duration_nanos_, set_action_failed, hostVars, sampleHist>>

\* Stop(): signal(SIGPROF, SIG_IGN)
StopIgnore ==
  /\ s_pc = "stopping"
  /\ sig_action' = StopDisposition(sig_action)
  /\ s_pc' = "settle"
  /\ UNCHANGED <<asmVars, profVars, handlerVars, drainVars, histVars,
                 session, gil_held, py_traces, timer_armed, tp_dealloc,
                 old_code_dealloc_, queried_freed, exit_path,
                 duration_nanos_, set_action_failed, clockVars, hostVars,
                 sampleHist>>

\* SleepUntil(finish_line + flush_interval); Flush();
FinalFlush ==
  /\ s_pc = "settle"
  /\ HarvestBegins
  /\ s_pc' = "final_flush"
  /\ UNCHANGED <<session, gil_held, py_traces, timer_armed, sig_action,
                 tp_dealloc, old_code_dealloc_, queried_freed, exit_path,
                 duration_nanos_, set_action_failed, clockVars, hostVars,
                 sampleHist>>

\* A Collect that would go on to PythonTraces without the GIL.
GilNotRestored(held) == held

\* Py_END_ALLOW_THREADS: PyEval_RestoreThread(_save)
PyEvalRestoreThread(held) == TRUE

\* Py_END_ALLOW_THREADS, once the final Flush has returned.
EndAllowThreads ==
  /\ s_pc = "final_flush"
  /\ d_pc = "idle"
  /\ gil_held' = PyEvalRestoreThread(gil_held)
  /\ s_pc' = "materialize"
  /\ UNCHANGED <<asmVars, profVars, handlerVars, drainVars, histVars,
                 session, py_traces, timer_armed, sig_action, tp_dealloc,
                 old_code_dealloc_, queried_freed, exit_path,
                 duration_nanos_, set_action_failed, clockVars, hostVars,
                 sampleHist>>

\* PyDict_SetItem(py_traces, py_frames, trace_count) with trace_count null:
\* the host increments the reference count of a null pointer, which is
\* undefined.  The process is killed, or the call fails as a checked one
\* would.
NullCountOutcomes == {"killed", "error"}

\* Where Collect is after PyDict_SetItem was handed a null trace_count.
AfterNullCount(outcome) ==
  IF outcome = "killed" THEN "killed" ELSE "returning"

\* PyObject *traces = PythonTraces(): the dictionary; or nullptr when the
\* host fails to make the dictionary, a tuple of frames or a frame, or to
\* read or insert a count; or what follows from a count that the host has
\* failed to make, which PythonTraces inserts untested.
PythonTraces ==
  /\ s_pc = "materialize"
  /\ aggregated_traces_' =
       WithUnknown(aggregated_traces_, unknown_stack_count_)
  /\ \/ /\ py_traces' = PyTraces(<<>>, DOMAIN aggregated_traces_',
                                 aggregated_traces_', deallocated_code_,
                                 heap)
        /\ queried_freed' =
             (queried_freed
                \/ \E t \in DOMAIN aggregated_traces_' :
                     \E k \in 1 .. Len(t) :
                       QueriesFreed(t[k], deallocated_code_, heap))
        /\ exit_path' = "normal"
        /\ s_pc' = "returning"
     \/ /\ py_traces' = "nullptr"
        /\ exit_path' = "materialize_failed"
        /\ s_pc' = "returning"
        /\ UNCHANGED queried_freed
     \/ /\ DOMAIN aggregated_traces_' # {}
        /\ \E outcome \in NullCountOutcomes :
             /\ s_pc' = AfterNullCount(outcome)
             /\ py_traces' =
                  IF s_pc' = "killed" THEN "none" ELSE "nullptr"
             /\ exit_path' =
                  IF s_pc' = "killed" THEN "count_not_created"
                  ELSE "materialize_failed"
        /\ UNCHANGED queried_freed
  /\ UNCHANGED <<asmVars, unknown_stack_count_, handlerVars, drainVars,
                 histVars, session, gil_held, timer_armed, sig_action,
                 tp_dealloc, old_code_dealloc_, duration_nanos_,
                 set_action_failed, clockVars, hostVars, sampleHist>>

\* A Collect that would leave the wrapper installed when it returns nullptr.
DeallocLeftOnFailure(old, installed, traces) ==
  IF traces = "nullptr" THEN installed ELSE old

\* ~CodeDeallocHook() { PyCode_Type.tp_dealloc = old_code_dealloc_; }
DeallocAfterCollect(old, installed, traces) == old

\* Collect returns: dealloc_hook goes out of scope; ProfileCPU returns to
\* the interpreter, which lets other threads have the GIL again.
CollectReturn ==
  /\ s_pc = "returning"
  /\ tp_dealloc' =
       DeallocAfterCollect(old_code_dealloc_, tp_dealloc, py_traces)
  /\ gil_held' = FALSE
  /\ s_pc' = "idle"
  /\ UNCHANGED <<asmVars, profVars, handlerVars, drainVars, histVars,
                 session, py_traces, timer_armed, sig_action,
                 old_code_dealloc_, queried_freed, exit_path,
                 duration_nanos_, set_action_failed, clockVars, hostVars,
                 sampleHist>>

\* The timer expires while SIGPROF has its default disposition: the signal
\* terminates the process, and with it the thread of Collect.
SigprofDefault ==
  /\ timer_armed
  /\ sig_action = "default"
  /\ s_pc \in {"started", "loop"}
  /\ s_pc' = "killed"
  /\ d_pc' = "killed"
  /\ timer_armed' = FALSE
  /\ UNCHANGED <<asmVars, profVars, handlerVars, d_loc, d_c, d_num_frames,
                 d_frames, d_ret, d_caller, histVars, session, gil_held,
                 py_traces, sig_action, tp_dealloc, old_code_dealloc_,
                 queried_freed, exit_path, duration_nanos_,
                 set_action_failed, clockVars, hostVars, sampleHist>>

\* ITIMER_PROF fires and SIGPROF is delivered to a thread that runs no
\* handler, inside frames whose code records are alive.
Sigprof(w, ts) ==
  /\ timer_armed
  /\ sig_action = "handle"
  /\ started < MaxAdds
  /\ \A a \in CodesOf(ts.frame) : heap[a].live
  /\ HandleBegins(w, ts)
  /\ h_session' = [h_session EXCEPT ![w] = session]
  /\ sampled' = [sampled EXCEPT ![session] = @ + 1]
  /\ sampled_code' =
       sampled_code \cup
         {[addr |-> a, gen |-> heap[a].gen, name |-> heap[a].name] :
            a \in CodesOf(ts.frame)}
  /\ UNCHANGED add_false

(***************************************************************************)
(* One collect session, in a host whose code records die and whose         *)
(* addresses are used again.                                               *)
(***************************************************************************)
SessionProfileCPU == session = 0 /\ ProfileCPU

SessionNext ==
  \/ SessionProfileCPU /\ UNCHANGED compVars
  \/ CollectReset /\ UNCHANGED compVars
  \/ HookInstall /\ UNCHANGED compVars
  \/ Start /\ UNCHANGED compVars
  \/ BeginAllowThreads /\ UNCHANGED compVars
  \/ LoopFlush /\ UNCHANGED compVars
  \/ Stop /\ UNCHANGED compVars
  \/ StopIgnore /\ UNCHANGED compVars
  \/ FinalFlush /\ UNCHANGED compVars
  \/ EndAllowThreads /\ UNCHANGED compVars
  \/ PythonTraces /\ UNCHANGED compVars
  \/ CollectReturn /\ UNCHANGED compVars
  \/ SigprofDefault /\ UNCHANGED compVars
  \/ \E w \in SessionWriters, ts \in SessionThreadStates : Sigprof(w, ts)
       /\ UNCHANGED compVars
  \/ \E w \in SessionWriters : AddStep(w) /\ UNCHANGED compVars
  \/ ExtractStep /\ UNCHANGED compVars
  \/ ExtractReturn /\ UNCHANGED compVars
  \/ \E a \in MortalAddrs : CodeDealloc(a) /\ UNCHANGED compVars
  \/ \E a \in MortalAddrs : CodeAlloc(a, "g") /\ UNCHANGED compVars

SpecSession == Init /\ [][SessionNext]_vars


(***************************************************************************)
(* Properties of one session, under SpecSession.                           *)
(***************************************************************************)
\* Collect has materialized its dictionary and is about to return it.  The
\* GIL is held since before PythonTraces: the code records and the map are
\* those PythonTraces saw.
Materialized == s_pc = "returning" /\ exit_path = "normal"

\* The key PythonTraces builds for a trace.
KeyOf(t) == PyFrames(t, deallocated_code_, heap)

\* The value of the materialized dictionary at a key.
ValueAt(key) == IF key \in DOMAIN py_traces THEN py_traces[key] ELSE 0

\* The traces handlers have added.
AddedTraces == {t \in AllTraces : calls[t] > 0}

\* The Adds of t that have changed a slot's count: those that returned true
\* and those that are about to.
AbsorbedAdds(t) ==
  adds_true[t]
    + Cardinality({w \in Writers : h_pc[w] = "dec_inc" /\ h_trace[w] = t})

Destroyed(r) == ~heap[r.addr].live \/ heap[r.addr].gen # r.gen

\* Every sample taken is in the growable multiset: no handler runs, no Add
\* returned false and the table holds nothing.
AllSamplesHarvested ==
  /\ \A w \in Writers : h_pc[w] = "idle"
  /\ unknown_stack_count_ = 0
  /\ \A i \in Slots : count[i] = 0

\* C9 as stated, where every sample taken is in the growable multiset: no
\* destroyed record is queried, and every sampled record that was destroyed
\* before materialization is in the map with the snapshot taken at its
\* destruction.
C9_OwnSnapshot ==
  (Materialized /\ AllSamplesHarvested) =>
    /\ ~queried_freed
    /\ \A r \in sampled_code :
         Destroyed(r) =>
           /\ r.addr \in DOMAIN deallocated_code_
           /\ deallocated_code_[r.addr] = FuncLoc(r.name, "app.py")
    /\ \A r \in sampled_code :
         r.addr \notin DOMAIN deallocated_code_ => ~Destroyed(r)

\* C9, amended: materialization queries no destroyed record; an address is
\* in the map exactly if a record was destroyed there since the hook was
\* installed, with the snapshot taken at the first such destruction, which
\* is the snapshot of a sampled frame's own record only if the address was
\* not used again; a frame whose address is not in the map is resolved by a
\* query of its own record, which is alive.
C9_FirstSnapshot ==
  Materialized =>
    /\ ~queried_freed
    /\ DOMAIN deallocated_code_ = DOMAIN first_death
    /\ \A a \in DOMAIN deallocated_code_ :
         deallocated_code_[a] = first_death[a]
    /\ \A r \in sampled_code :
         r.addr \notin DOMAIN deallocated_code_ => ~Destroyed(r)
    /\ \A r \in sampled_code :
         (Destroyed(r) /\ r.gen = 0) =>
           /\ r.addr \in DOMAIN deallocated_code_
           /\ deallocated_code_[r.addr] = FuncLoc(r.name, "app.py")

\* A sampled record was destroyed before materialization and its frame is
\* in the growable multiset, resolved by the snapshot taken at its
\* destruction.
C9_ResolvedBySnapshot ==
  /\ Materialized
  /\ AllSamplesHarvested
  /\ \E r \in sampled_code :
       /\ Destroyed(r)
       /\ r.addr \in DOMAIN deallocated_code_
       /\ deallocated_code_[r.addr] = FuncLoc(r.name, "app.py")
       /\ \E t \in DOMAIN aggregated_traces_ : r.addr \in CodesOf(t)

\* A frame sampled from the second record at an address is resolved by the
\* snapshot of the first.
C9_StaleSnapshot ==
  /\ Materialized
  /\ AllSamplesHarvested
  /\ \E r \in sampled_code :
       /\ r.gen = 1
       /\ r.addr \in DOMAIN deallocated_code_
       /\ deallocated_code_[r.addr].name # r.name

\* C10: when Collect has returned, by whichever path, PyCode_Type.tp_dealloc
\* is the destructor that was there before the hook was installed, not the
\* wrapper.
C10_DeallocRestored ==
  (s_pc = "idle" /\ session > 0) =>
    /\ tp_dealloc = HostCodeDealloc
    /\ tp_dealloc # HookCodeDealloc
    /\ exit_path \in {"start_failed", "materialize_failed", "normal"}

\* Collect has returned nullptr because materialization failed, after the
\* hook had recorded a destroyed record.
C10_ReturnedAfterFailure ==
  /\ s_pc = "idle"
  /\ exit_path = "materialize_failed"
  /\ old_code_dealloc_ = HostCodeDealloc
  /\ DOMAIN deallocated_code_ # {}


(***************************************************************************)
(* Two collect sessions, one after the other.  The host's code records     *)
(* stay as they are.                                                       *)
(***************************************************************************)
RestartNext ==
  \/ ProfileCPU /\ UNCHANGED compVars
  \/ CollectReset /\ UNCHANGED compVars
  \/ HookInstall /\ UNCHANGED compVars
  \/ Start /\ UNCHANGED compVars
  \/ BeginAllowThreads /\ UNCHANGED compVars
  \/ LoopFlush /\ UNCHANGED compVars
  \/ Stop /\ UNCHANGED compVars
  \/ StopIgnore /\ UNCHANGED compVars
  \/ FinalFlush /\ UNCHANGED compVars
  \/ EndAllowThreads /\ UNCHANGED compVars
  \/ PythonTraces /\ UNCHANGED compVars
  \/ CollectReturn /\ UNCHANGED compVars
  \/ SigprofDefault /\ UNCHANGED compVars
  \/ \E w \in SessionWriters, ts \in SessionThreadStates : Sigprof(w, ts)
       /\ UNCHANGED compVars
  \/ \E w \in SessionWriters : AddStep(w) /\ UNCHANGED compVars
  \/ ExtractStep /\ UNCHANGED compVars
  \/ ExtractReturn /\ UNCHANGED compVars

SpecRestart == Init /\ [][RestartNext]_vars

\* The sum of the counts of the materialized mapping.
PyTracesTotal == SumOver(py_traces, DOMAIN py_traces)

\* C7: the second session's result counts only samples whose handler was
\* invoked in the second session, and nothing the first session's handlers
\* do reaches the second session's table or unknown_stack_count_: the counts
\* in the table and unknown_stack_count_ are bounded by the number of the
\* second session's handler invocations, and no slot's active_updates is
\* negative.
C7_SecondSessionIndependent ==
  session = 2 =>
    /\ Materialized => PyTracesTotal <= sampled[2]
    /\ \A i \in Slots : count[i] <= sampled[2]
    /\ unknown_stack_count_ <= sampled[2]
    /\ \A i \in Slots : active_updates[i] >= 0

\* The second session returns a mapping with a count though no handler was
\* invoked in it: the count of a handler of the first session that was
\* still running when the second session reset the table.
C7_FirstSessionSampleInSecond ==
  /\ session = 2
  /\ Materialized
  /\ sampled[2] = 0
  /\ PyTracesTotal = 1

\* A handler of the first session has lowered, in the second session, the
\* active_updates of a slot that the second session's reset had zeroed.
C7_NegativeActiveUpdates ==
  /\ session = 2
  /\ \E i \in Slots : active_updates[i] < 0



(***************************************************************************)
(* CodeDeallocHook on its own: its objects are constructed and destroyed   *)
(* by threads that hold the GIL, in any order, while the host's code       *)
(* records die and are allocated.                                          *)
(***************************************************************************)
\* Most CodeDeallocHook objects alive at one time.
MaxHooks == 2

\* What the component leaves alone: the table, the handlers and Collect.
hookRest ==
  <<asmVars, profVars, handlerVars, drainVars, histVars, sampleHist, s_pc,
    session, gil_held, py_traces, timer_armed, sig_action, queried_freed,
    exit_path, duration_nanos_, set_action_failed, clockVars>>

\* The wrapper has called itself: the recursion has no end but the end of
\* the stack.
WrapperRecursing == delegated = HookCodeDealloc

\* CodeDeallocHook(), in a thread that holds the GIL.
HookCtor ==
  /\ ~WrapperRecursing
  /\ hooks < MaxHooks
  /\ HookConstructed
  /\ hooks' = hooks + 1
  /\ UNCHANGED <<hookRest, heap, delegated, argVars, walkVars, forkVars, orderVars,
                 timeVars, mapVars>>

\* ~CodeDeallocHook(), in a thread that holds the GIL.
HookDtor ==
  /\ ~WrapperRecursing
  /\ hooks > 0
  /\ tp_dealloc' = DeallocAfterCollect(old_code_dealloc_, tp_dealloc, "none")
  /\ hooks' = hooks - 1
  /\ UNCHANGED <<hookRest, old_code_dealloc_, hostVars, argVars, walkVars, forkVars, orderVars,
                 timeVars, mapVars>>

\* The last reference to a code record goes.
HookCodeDies(a) ==
  /\ ~WrapperRecursing
  /\ TpDealloc(a)
  /\ UNCHANGED <<hookRest, tp_dealloc, old_code_dealloc_, hooks, argVars, walkVars, forkVars, orderVars,
                 timeVars, mapVars>>

\* The host allocates a code record at a free address.
HookCodeAlloc(a, name) ==
  /\ ~WrapperRecursing
  /\ ~heap[a].live
  /\ heap[a].gen < MaxAllocs
  /\ heap' = [heap EXCEPT ![a] = CodeRecord(TRUE, name, @.gen + 1)]
  /\ UNCHANGED <<hookRest, tp_dealloc, old_code_dealloc_, hooks,
                 deallocated_code_, first_death, delegated, argVars, walkVars, forkVars, orderVars,
                 timeVars, mapVars>>

HookNext ==
  \/ HookCtor
  \/ HookDtor
  \/ \E a \in CodeAddrs : HookCodeDies(a)
  \/ \E a \in CodeAddrs : HookCodeAlloc(a, "g")

SpecHook == Init /\ [][HookNext]_vars

\* C11: installing the hook again while it is installed leaves the saved
\* original destructor the host's own, so that the wrapper passes a dying
\* record on to the host's destructor and never to itself, and the
\* uninstalls that follow restore the host's destructor.
C11_InstallIdempotent ==
  /\ hooks > 0 => old_code_dealloc_ = HostCodeDealloc
  /\ delegated # HookCodeDealloc
  /\ hooks = 0 => tp_dealloc = HostCodeDealloc

\* A second hook was installed over the first, and a code record died: the
\* wrapper has called itself.
C11_WrapperCallsItself ==
  /\ hooks = 2
  /\ old_code_dealloc_ = HookCodeDealloc
  /\ WrapperRecursing

\* Both hooks are uninstalled and the wrapper is still the destructor of
\* code records.
C11_WrapperLeftInstalled ==
  /\ hooks = 0
  /\ tp_dealloc = HookCodeDealloc
  /\ old_code_dealloc_ = HookCodeDealloc

\* One hook at a time: the saved destructor is the host's, the wrapper
\* passes the record on to it, and the uninstall restores it.
C11_OneHookAtATime ==
  /\ s_pc \in {"hooked", "started", "loop", "stopping", "settle",
               "final_flush", "materialize", "returning"}
       => /\ tp_dealloc = HookCodeDealloc
          /\ old_code_dealloc_ = HostCodeDealloc
  /\ delegated \in {"none", HostCodeDealloc}
  /\ s_pc \in {"idle", "constructed", "reset"}
       => tp_dealloc = HostCodeDealloc



(***************************************************************************)
(* The failures of a session, under SpecRestart.                           *)
(***************************************************************************)
\* Start has failed in the session that runs or has just returned.
StartFailed == exit_path = "start_failed"

\* Up to Start the thread of Collect holds the GIL, has harvested nothing
\* and has materialized nothing.
NothingBeforeStart ==
  s_pc \in {"constructed", "reset", "hooked"}
    => /\ gil_held
       /\ d_pc = "idle"
       /\ aggregated_traces_ = <<>>
       /\ py_traces = "none"
       /\ ~timer_armed

\* C12: when arming the timer fails, Collect returns nullptr to its caller:
\* the failure is found at Start with the GIL held, and from there to the
\* return the GIL stays held, no Extract runs, aggregated_traces_ is not
\* written, no handler is invoked and the timer is not armed.
C12_StartFailureReturns ==
  /\ [](NothingBeforeStart)
  /\ [][StartFailed'
          => /\ ~StartFailed => s_pc = "hooked" /\ s_pc' = "returning"
             /\ s_pc' \in {"returning", "idle"}
             /\ py_traces' = "nullptr"
             /\ s_pc # "idle" => gil_held
             /\ s_pc' # "idle" => gil_held'
             /\ d_pc' = "idle"
             /\ UNCHANGED <<aggregated_traces_, sampled>>
             /\ ~timer_armed']_vars

\* Collect has returned after Start failed.
C12_ReturnedStartFailure ==
  /\ StartFailed
  /\ s_pc = "idle"
  /\ py_traces = "nullptr"
  /\ tp_dealloc = HostCodeDealloc


\* C13: when installing the handler of SIGPROF fails during Reset, the
\* session is aborted: the timer is not armed, Collect does not go on to
\* sample and harvest, and no mapping is produced.
C13_InstallFailureAborts ==
  set_action_failed
    => /\ ~timer_armed
       /\ s_pc \notin {"started", "loop", "stopping", "settle",
                       "final_flush", "materialize", "killed"}
       /\ exit_path # "normal"

\* No sigaction call of the session has installed Handle, and the timer is
\* armed while SIGPROF has its default disposition.
C13_ArmedWithoutHandler ==
  /\ set_action_failed
  /\ timer_armed
  /\ sig_action = "default"
  /\ s_pc = "loop"

\* The session whose handler was never installed returns a mapping.
C13_ProfileWithoutHandler ==
  /\ set_action_failed
  /\ s_pc = "returning"
  /\ exit_path = "normal"
  /\ py_traces = <<>>

\* The first expiry of the timer has terminated the process.
C13_KilledBySigprof == set_action_failed /\ s_pc = "killed"



(***************************************************************************)
(* The synthetic traces of the materialized mapping.                       *)
(***************************************************************************)
\* The key of the synthetic trace that carries unknown_stack_count_.
UnknownKey == <<<<"[Unknown]", "", kUnknown>>>>

\* PythonTraces builds the mapping in this step.
Materializes ==
  s_pc = "materialize" /\ s_pc' = "returning" /\ exit_path' = "normal"

\* The mapping PythonTraces builds has the synthetic trace exactly when
\* unknown_stack_count_ > 0, with that count.
UnknownKeyCarriesCount ==
  /\ UnknownKey \in DOMAIN py_traces' <=> unknown_stack_count_ > 0
  /\ unknown_stack_count_ > 0
       => py_traces'[UnknownKey] = unknown_stack_count_

\* C14: the mapping holds the trace of the one frame ("[Unknown]", "", 0)
\* exactly when unknown_stack_count_ > 0 at materialization, its value is
\* unknown_stack_count_, and that is the number of handler invocations of
\* this session whose Add returned false.
C14_UnknownCountsSessionFailures ==
  [][Materializes
       => /\ UnknownKeyCarriesCount
          /\ unknown_stack_count_ = add_false[session]]_vars

\* The second session's mapping has the synthetic trace, and no Add of a
\* handler invoked in the second session has returned false.
C14_FailureOfFirstSessionCounted ==
  /\ Materialized
  /\ session = 2
  /\ UnknownKey \in DOMAIN py_traces
  /\ add_false[2] = 0
  /\ add_false[1] > 0

\* The synthetic trace carries unknown_stack_count_, which counts the
\* failed Adds of the first session's handlers in a first session, and
\* those that returned since the last Reset in any session.
C14_UnknownCountsSinceReset ==
  [][Materializes
       => /\ UnknownKeyCarriesCount
          /\ session = 1 => unknown_stack_count_ = add_false[1]
          /\ unknown_stack_count_ <= add_false[1] + add_false[2]]_vars



(***************************************************************************)
(* A session of no duration.                                               *)
(***************************************************************************)
\* Collect is about to return from a session of duration 0.
ZeroDurationReturns == duration_nanos_ = 0 /\ s_pc = "returning"

\* The handlers invoked so far.
HandlersInvoked == SumOver(sampled, Sessions)

\* C15 as stated: profile_cpu with duration = 0 leaves no timer armed, and
\* the mapping it returns is empty.
C15_EmptyMappingNoTimer ==
  ZeroDurationReturns
    => /\ ~timer_armed
       /\ exit_path = "normal" => py_traces = <<>>

\* C15: with duration = 0 the harvest loop does not run and no timer is
\* armed when Collect returns; Collect returns nullptr when Start or
\* PythonTraces fails, and else a mapping that counts at most the handlers
\* invoked so far, which is empty when there was none.
C15_ZeroDurationReturn ==
  /\ [](ZeroDurationReturns
          => /\ ~timer_armed
             /\ exit_path \in {"start_failed", "materialize_failed"}
                  => py_traces = "nullptr"
             /\ exit_path = "normal"
                  => /\ PyTracesTotal <= HandlersInvoked
                     /\ HandlersInvoked = 0 => py_traces = <<>>)
  /\ [][(duration_nanos_ = 0 /\ s_pc = "loop")
          => /\ d_pc = "idle"
             /\ d_pc' \in {"idle", "killed"}
             /\ s_pc' \in {"loop", "stopping", "killed"}]_vars

\* The timer expired between Start and Stop: the session of duration 0
\* returns a mapping that holds a sample taken in it.
C15_ZeroDurationSample ==
  /\ ZeroDurationReturns
  /\ exit_path = "normal"
  /\ sampled[session] > 0
  /\ PyTracesTotal > 0



(***************************************************************************)
(* The period, from the argument of profile_cpu to setitimer.  ProfileCPU  *)
(* keeps it in a uint64_t, Profiler in an int64_t, Start in an int.        *)
(***************************************************************************)
\* clock.h: kNanosPerMilli = 1000 * 1000 and kMicrosPerSecond = 1000 * 1000
kNanosPerMilli == 1000000
kMicrosPerSecond == 1000000

\* Start: period_nanos_ / 1000
kNanosPerMicro == 1000

\* INT_MAX of the int that Start keeps period_usec in.
kIntMax == 2147483647

\* a * m modulo 2^64, for 0 <= m < 2^15.
BVMulSmall(a, m) ==
  LET p1 == a[1] * m
      p2 == a[2] * m + (p1 \div LimbBase)
      p3 == a[3] * m + (p2 \div LimbBase)
      p4 == a[4] * m + (p3 \div LimbBase)
  IN <<p1 % LimbBase, p2 % LimbBase, p3 % LimbBase, p4 % LimbBase>>

\* a / d of unsigned a, for 0 < d < 2^15.
BVDivSmall(a, d) ==
  LET r4 == a[4] % d
      n3 == r4 * LimbBase + a[3]
      n2 == (n3 % d) * LimbBase + a[2]
      n1 == (n2 % d) * LimbBase + a[1]
  IN <<n1 \div d, n2 \div d, n3 \div d, a[4] \div d>>

\* The word read as an int64_t is negative.
BVIsNeg(a) == a[4] >= LimbBase \div 2

\* -a modulo 2^64.
BVNeg(a) ==
  BVAdd(<<(LimbBase - 1) - a[1], (LimbBase - 1) - a[2],
          (LimbBase - 1) - a[3], (LimbBase - 1) - a[4]>>, BVFromInt(1))

\* a / d of the int64_t a, rounded towards zero, for 0 < d < 2^15.
BVSDivSmall(a, d) ==
  IF BVIsNeg(a) THEN BVNeg(BVDivSmall(BVNeg(a), d)) ELSE BVDivSmall(a, d)

\* The conversion of an int64_t to int: the low 32 bits, two's complement.
ToInt32(a) ==
  IF a[2] >= LimbBase \div 2 THEN (a[2] - LimbBase) * LimbBase + a[1]
  ELSE a[2] * LimbBase + a[1]

\* a / b and a % b of C++, for b > 0: the quotient is rounded towards zero.
TruncDiv(a, b) == (a \div b) + (IF a < 0 /\ a % b # 0 THEN 1 ELSE 0)
TruncRem(a, b) == a - b * TruncDiv(a, b)

\* ProfileCPU: period_msec * kNanosPerMilli, in uint64_t.
PeriodNanos(msec) ==
  BVMulSmall(BVMulSmall(msec, 1000), kNanosPerMilli \div 1000)

\* A Start that would take period_nanos_ for microseconds times a million.
PeriodUsecOfMillis(nanos) ==
  ToInt32(BVSDivSmall(BVSDivSmall(nanos, 1000), 1000))

\* Start: int period_usec = period_nanos_ / 1000;
PeriodUsec(nanos) == ToInt32(BVSDivSmall(nanos, kNanosPerMicro))

\* SetSigprofInterval: timer.it_interval of period_usec.
Interval(usec) ==
  [tv_sec |-> TruncDiv(usec, kMicrosPerSecond),
   tv_usec |-> TruncRem(usec, kMicrosPerSecond)]

\* setitimer(ITIMER_PROF, &timer, NULL): EINVAL for a negative field, the
\* timer disarmed for a zero interval, and armed else.
Setitimer(interval) ==
  IF interval.tv_sec < 0 \/ interval.tv_usec < 0 THEN "failed"
  ELSE IF interval = NoInterval THEN "disarmed"
  ELSE "armed"

\* The periods profile_cpu is called with: the small ones, and those at
\* which 1000 * period passes INT_MAX, 2^32 and a multiple of 2^32, and
\* 2^45, at which period * kNanosPerMilli passes 2^63.
MaxSmallPeriod == 30

Periods ==
  {BVFromInt(p) : p \in 1 .. MaxSmallPeriod}
    \cup {BVFromInt(2147483), BVFromInt(2147484), BVFromInt(4294968),
          BVFromInt(536870912), <<0, 0, 8192, 0>>}

\* What the session variables do while the period is followed.
argRest ==
  <<asmVars, profVars, handlerVars, drainVars, histVars, sessVars, hooks,
    walkVars, forkVars, orderVars, timeVars, mapVars>>

\* PyArg_ParseTuple(args, "LL", &duration_nanos, &period_msec)
ArgsParse(p) ==
  /\ a_pc = "idle"
  /\ period_msec' = p
  /\ a_pc' = "parsed"
  /\ UNCHANGED <<period_nanos_, period_usec, it_interval, start_result,
                 argRest>>

\* CPUProfiler p(duration_nanos, period_msec * kNanosPerMilli)
ArgsConstruct ==
  /\ a_pc = "parsed"
  /\ period_nanos_' = PeriodNanos(period_msec)
  /\ a_pc' = "constructed"
  /\ UNCHANGED <<period_msec, period_usec, it_interval, start_result,
                 argRest>>

\* Start: int period_usec = period_nanos_ / 1000;
ArgsStart ==
  /\ a_pc = "constructed"
  /\ period_usec' = PeriodUsec(period_nanos_)
  /\ a_pc' = "start"
  /\ UNCHANGED <<period_msec, period_nanos_, it_interval, start_result,
                 argRest>>

\* return handler_.SetSigprofInterval(period_usec);
ArgsSetSigprofInterval ==
  /\ a_pc = "start"
  /\ start_result' = Setitimer(Interval(period_usec))
  /\ it_interval' =
       IF Setitimer(Interval(period_usec)) = "failed" THEN it_interval
       ELSE Interval(period_usec)
  /\ a_pc' = "started"
  /\ UNCHANGED <<period_msec, period_nanos_, period_usec, argRest>>

\* The session ends, and Stop has disarmed the timer.
ArgsReturn ==
  /\ a_pc = "started"
  /\ a_pc' = "idle"
  /\ period_msec' = BVFromInt(0)
  /\ period_nanos_' = BVFromInt(0)
  /\ period_usec' = 0
  /\ it_interval' = NoInterval
  /\ start_result' = "none"
  /\ UNCHANGED argRest

ArgsNext ==
  \/ \E p \in Periods : ArgsParse(p)
  \/ ArgsConstruct
  \/ ArgsStart
  \/ ArgsSetSigprofInterval
  \/ ArgsReturn

SpecArgs == Init /\ [][ArgsNext]_vars

\* The interval of the timer, in microseconds.
IntervalMicros == it_interval.tv_sec * kMicrosPerSecond + it_interval.tv_usec

\* The argument is one whose thousandfold an int holds.
ThousandfoldFits(p) ==
  /\ p[3] = 0
  /\ p[4] = 0
  /\ p[2] < LimbBase \div 2
  /\ p[2] * LimbBase + p[1] <= kIntMax \div 1000

\* C16 as stated: the timer is armed with a period in microseconds that is
\* the period argument, for every positive argument.
C16_PeriodIsArgument ==
  a_pc = "started"
    => /\ start_result = "armed"
       /\ BVFromInt(IntervalMicros) = period_msec

\* C16: the argument counts milliseconds.  The timer is armed with a period
\* of 1000 times the argument in microseconds when that is at most INT_MAX;
\* a zero period_usec disarms the timer and a negative one makes Start fail.
C16_PeriodIsThousandfold ==
  a_pc = "started"
    => /\ ThousandfoldFits(period_msec)
            => /\ start_result = "armed"
               /\ IntervalMicros = 1000 * (period_msec[2] * LimbBase
                                             + period_msec[1])
       /\ start_result = "armed" <=> period_usec > 0
       /\ start_result = "disarmed" <=> period_usec = 0
       /\ start_result = "failed" <=> period_usec < 0

\* The largest argument whose thousandfold an int holds arms the timer.
C16_LargestPeriodArmed ==
  /\ a_pc = "started"
  /\ period_msec = BVFromInt(2147483)
  /\ start_result = "armed"
  /\ it_interval = [tv_sec |-> 2147, tv_usec |-> 483000]

\* A positive argument disarms the timer, and Start returns true.
C16_PeriodTruncatedToZero ==
  /\ a_pc = "started"
  /\ period_msec = BVFromInt(536870912)
  /\ start_result = "disarmed"

\* A positive argument makes a negative period_usec: setitimer fails.
C16_PeriodNegative ==
  /\ a_pc = "started"
  /\ period_msec = BVFromInt(2147484)
  /\ period_usec = -2147483296
  /\ start_result = "failed"

\* A positive argument arms the timer with the low 32 bits of its
\* thousandfold.
C16_PeriodWrapped ==
  /\ a_pc = "started"
  /\ period_msec = BVFromInt(4294968)
  /\ start_result = "armed"
  /\ IntervalMicros = 704



(***************************************************************************)
(* One session in a host whose threads may have no thread state.           *)
(***************************************************************************)
\* The thread states sampled: none, and a one-frame chain.
NoStateThreadStates ==
  {NullTS, [is_null |-> FALSE, frame |-> <<HostFrame(10, 1)>>]}

NoStateNext ==
  \/ SessionProfileCPU /\ UNCHANGED compVars
  \/ CollectReset /\ UNCHANGED compVars
  \/ HookInstall /\ UNCHANGED compVars
  \/ Start /\ UNCHANGED compVars
  \/ BeginAllowThreads /\ UNCHANGED compVars
  \/ LoopFlush /\ UNCHANGED compVars
  \/ Stop /\ UNCHANGED compVars
  \/ StopIgnore /\ UNCHANGED compVars
  \/ FinalFlush /\ UNCHANGED compVars
  \/ EndAllowThreads /\ UNCHANGED compVars
  \/ PythonTraces /\ UNCHANGED compVars
  \/ CollectReturn /\ UNCHANGED compVars
  \/ SigprofDefault /\ UNCHANGED compVars
  \/ \E w \in SessionWriters, ts \in NoStateThreadStates : Sigprof(w, ts)
       /\ UNCHANGED compVars
  \/ \E w \in SessionWriters : AddStep(w) /\ UNCHANGED compVars
  \/ ExtractStep /\ UNCHANGED compVars
  \/ ExtractReturn /\ UNCHANGED compVars
  \/ \E a \in MortalAddrs : CodeDealloc(a) /\ UNCHANGED compVars
  \/ \E a \in MortalAddrs : CodeAlloc(a, "g") /\ UNCHANGED compVars

SpecNoState == Init /\ [][NoStateNext]_vars

\* The trace of a thread without thread state, and its key in the mapping.
NoStateTrace == <<[lineno |-> kNoPyState, py_code |-> NullPtr]>>
NoStateKey == <<<<"[Unknown - No Python thread state]", "", kNoPyState>>>>

\* C17: a handler invoked on a thread whose thread state is null has a trace
\* of exactly one frame, with a null code pointer and line kNoPyState (-1);
\* in the materialized mapping every frame of that line has the name
\* "[Unknown - No Python thread state]" and an empty filename, and the
\* harvested traces of such handlers are under the key of that one frame.
C17_NoStateFrame ==
  /\ \A w \in Writers :
       (h_pc[w] # "idle" /\ h_ts_null[w]) => h_trace[w] = NoStateTrace
  /\ Materialized =>
       /\ \A key \in DOMAIN py_traces : \A k \in 1 .. Len(key) :
            key[k][3] = kNoPyState =>
              /\ key[k][1] = "[Unknown - No Python thread state]"
              /\ key[k][2] = ""
       /\ GMCount(NoStateTrace) > 0 =>
            /\ NoStateKey \in DOMAIN py_traces
            /\ py_traces[NoStateKey] = GMCount(NoStateTrace)
       /\ NoStateKey \in DOMAIN py_traces => GMCount(NoStateTrace) > 0

\* Two handlers ran on threads without thread state, both were harvested,
\* and the mapping has their key with value 2.
C17_NoStateSampledTwice ==
  /\ Materialized
  /\ calls[NoStateTrace] = 2
  /\ ValueAt(NoStateKey) = 2

\* A handler on a thread without thread state is about to call Add.
C17_NoStateHandlerRuns ==
  \E w \in Writers : h_pc[w] = "fetch_add" /\ h_ts_null[w]



(***************************************************************************)
(* Profiler::Handle's walk of the frame chain, one action per statement.   *)
(* The buffer frames is a function of the indices written, so that a write *)
(* past its end shows.                                                     *)
(***************************************************************************)
\* The deepest frame chain walked.
MaxWalkDepth == 4

\* Frame chains of every depth up to MaxWalkDepth, innermost frame first,
\* of frames that differ in line or code record.
WalkFrames == {HostFrame(l, c) : l \in {10, 20}, c \in CodeAddrs}

WalkChains ==
  UNION {[1 .. n -> WalkFrames] : n \in 0 .. MaxWalkDepth}

WalkThreadStates ==
  {NullTS} \cup {[is_null |-> FALSE, frame |-> c] : c \in WalkChains}

\* A loop that would stop one frame later.
WalkContinuesToEnd(frame, num_frames) ==
  frame # <<>> /\ num_frames <= kMaxFramesToCapture

\* while (frame != nullptr && num_frames < kMaxFramesToCapture)
WalkContinues(frame, num_frames) ==
  frame # <<>> /\ num_frames < kMaxFramesToCapture

\* frames[idx] = value
WriteFrame(buffer, idx, value) ==
  [i \in DOMAIN buffer \cup {idx} |-> IF i = idx THEN value ELSE buffer[i]]

\* What the walk leaves alone.
walkRest ==
  <<asmVars, profVars, handlerVars, drainVars, histVars, sessVars, hooks,
    argVars, forkVars, orderVars, timeVars, mapVars>>

\* PyThreadState *ts = get_thread_state_func(), with trace.num_frames = 0
WalkGetThreadState(ts) ==
  /\ k_pc = "idle"
  /\ k_ts' = ts
  /\ k_frame' = <<>>
  /\ k_frames' = <<>>
  /\ k_num_frames' = 0
  /\ k_written' = {}
  /\ k_pc' = "test_ts"
  /\ UNCHANGED walkRest

\* if (ts == nullptr) { frames[0] = {kNoPyState, nullptr}; num_frames = 1 }
WalkNoState ==
  /\ k_pc = "test_ts"
  /\ k_ts.is_null
  /\ k_frames' =
       WriteFrame(k_frames, 0, [lineno |-> kNoPyState, py_code |-> NullPtr])
  /\ k_written' = k_written \cup {0}
  /\ k_num_frames' = 1
  /\ k_pc' = "add"
  /\ UNCHANGED <<k_ts, k_frame, walkRest>>

\* PyFrameObject *frame = ts->frame; int num_frames = 0;
WalkFirstFrame ==
  /\ k_pc = "test_ts"
  /\ ~k_ts.is_null
  /\ k_frame' = k_ts.frame
  /\ k_num_frames' = 0
  /\ k_pc' = "while"
  /\ UNCHANGED <<k_ts, k_frames, k_written, walkRest>>

\* The body of the loop: frames[num_frames] = {f_lineno, f_code};
\* num_frames++; frame = frame->f_back
WalkFrame ==
  /\ k_pc = "while"
  /\ WalkContinues(k_frame, k_num_frames)
  /\ k_frames' = WriteFrame(k_frames, k_num_frames, Head(k_frame))
  /\ k_written' = k_written \cup {k_num_frames}
  /\ k_num_frames' = k_num_frames + 1
  /\ k_frame' = Tail(k_frame)
  /\ UNCHANGED <<k_pc, k_ts, walkRest>>

\* The loop ends: trace.num_frames = num_frames
WalkEnds ==
  /\ k_pc = "while"
  /\ ~WalkContinues(k_frame, k_num_frames)
  /\ k_pc' = "add"
  /\ UNCHANGED <<k_ts, k_frame, k_frames, k_num_frames, k_written, walkRest>>

\* Handle calls Add and returns.
WalkReturns ==
  /\ k_pc = "add"
  /\ k_pc' = "idle"
  /\ k_ts' = NullTS
  /\ k_frame' = <<>>
  /\ k_frames' = <<>>
  /\ k_num_frames' = 0
  /\ k_written' = {}
  /\ UNCHANGED walkRest

WalkNext ==
  \/ \E ts \in WalkThreadStates : WalkGetThreadState(ts)
  \/ WalkNoState
  \/ WalkFirstFrame
  \/ WalkFrame
  \/ WalkEnds
  \/ WalkReturns

SpecWalk == Init /\ [][WalkNext]_vars

\* The trace handed to Add: the first num_frames entries of the buffer.
WalkedTrace == [i \in 1 .. k_num_frames |-> k_frames[i - 1]]

\* The innermost n frames of a chain, innermost first.
Innermost(chain, n) == [i \in 1 .. n |-> chain[i]]

\* C18: for a frame chain of length L the handler records
\* min(L, kMaxFramesToCapture) frames, the innermost ones in the order
\* innermost to outermost; a chain of exactly kMaxFramesToCapture frames is
\* recorded in full; and no write goes past index kMaxFramesToCapture - 1
\* of the buffer.
C18_InnermostFramesRecorded ==
  /\ k_written \subseteq 0 .. (kMaxFramesToCapture - 1)
  /\ (k_pc = "add" /\ ~k_ts.is_null) =>
       /\ k_num_frames = Min(Len(k_ts.frame), kMaxFramesToCapture)
       /\ WalkedTrace = Innermost(k_ts.frame, k_num_frames)
       /\ Len(k_ts.frame) = kMaxFramesToCapture => WalkedTrace = k_ts.frame
  /\ k_pc = "add" => WalkedTrace = HandleTrace(k_ts)

\* A chain of exactly kMaxFramesToCapture frames has been recorded in full,
\* and the last index of the buffer was written.
C18_FullChainRecorded ==
  /\ k_pc = "add"
  /\ ~k_ts.is_null
  /\ Len(k_ts.frame) = kMaxFramesToCapture
  /\ WalkedTrace = k_ts.frame
  /\ (kMaxFramesToCapture - 1) \in k_written

\* A deeper chain has been cut to its innermost kMaxFramesToCapture frames.
C18_DeepChainTruncated ==
  /\ k_pc = "add"
  /\ ~k_ts.is_null
  /\ Len(k_ts.frame) = MaxWalkDepth
  /\ k_frame # <<>>
  /\ k_num_frames = kMaxFramesToCapture
  /\ WalkedTrace = Innermost(k_ts.frame, kMaxFramesToCapture)



(***************************************************************************)
(* A fork in a process that profiles.  The forking thread holds the GIL    *)
(* from before fork until fork has returned; the profiling thread holds it *)
(* in the constructor and releases it while it samples.  The child has the *)
(* forking thread alone, with that thread's signal mask and the parent's   *)
(* dispositions and fork handlers, and neither the parent's timer nor its  *)
(* pending signals.                                                        *)
(***************************************************************************)
\* The forks of one behaviour.
MaxForks == 2

\* A BlockSigprof that would block nothing.
BlockNothing(mask) == mask

\* BlockSigprof: pthread_sigmask(SIG_BLOCK, {SIGPROF})
BlockSigprof(mask) == mask \cup {"SIGPROF"}

\* UnblockSigprof: pthread_sigmask(SIG_UNBLOCK, {SIGPROF})
UnblockSigprof(mask) == mask \ {"SIGPROF"}

\* The fork handlers pthread_atfork has registered, run on a mask.
PrepareHandlers(registered, mask) ==
  IF registered THEN BlockSigprof(mask) ELSE mask
ParentHandlers(registered, mask) ==
  IF registered THEN UnblockSigprof(mask) ELSE mask
ChildHandlers(registered, mask) ==
  IF registered THEN UnblockSigprof(mask) ELSE mask

\* What a fork leaves alone.
forkRest ==
  <<asmVars, profVars, handlerVars, drainVars, histVars, sessVars, hooks,
    argVars, walkVars, orderVars, timeVars, mapVars>>

\* CPUProfiler p(...): Profiler's constructor installs the handler, and the
\* body registers the fork handlers once.  The GIL is held: the forking
\* thread has given it up, and is past fork's return.
ForkCPUProfiler ==
  /\ f_session = "idle"
  /\ f_pc \in {"run", "returned"}
  /\ f_pc' = "run"
  /\ f_action' = "handle"
  /\ fork_handlers_registered_' = TRUE
  /\ f_session' = "constructed"
  /\ UNCHANGED <<f_mask, f_timer, c_pc, c_mask, c_action, c_registered,
                 f_forks, f_handled_at, c_handled_at, forkRest>>

\* Collect up to PyEval_SaveThread: Reset, the hook, Start.  The GIL is held
\* until the last of them.
ForkStart ==
  /\ f_session = "constructed"
  /\ f_pc \in {"run", "returned"}
  /\ f_pc' = "run"
  /\ f_action' = "handle"
  /\ f_timer' = TRUE
  /\ f_session' = "sampling"
  /\ UNCHANGED <<fork_handlers_registered_, f_mask, c_pc, c_mask,
                 c_action, c_registered, f_forks, f_handled_at, c_handled_at,
                 forkRest>>

\* Stop: SetSigprofInterval(0) and signal(SIGPROF, SIG_IGN), without the GIL.
ForkStop ==
  /\ f_session = "sampling"
  /\ f_timer' = FALSE
  /\ f_action' = "ignore"
  /\ f_session' = "idle"
  /\ UNCHANGED <<fork_handlers_registered_, f_pc, f_mask, c_pc, c_mask,
                 c_action, c_registered, f_forks, f_handled_at, c_handled_at,
                 forkRest>>

\* The host's own pthread_sigmask in the forking thread, outside fork.
ForkAppSigmask(mask) ==
  /\ f_pc \in {"run", "returned"}
  /\ f_mask # mask
  /\ f_mask' = mask
  /\ f_pc' = "run"
  /\ UNCHANGED <<fork_handlers_registered_, f_timer, f_action, f_session,
                 c_pc, c_mask, c_action, c_registered, f_forks, f_handled_at,
                 c_handled_at, forkRest>>

\* fork() is called: the prepare handlers run in the forking thread.  The
\* profiling thread is not in the constructor nor before Start's end.
ForkPrepare ==
  /\ f_pc \in {"run", "returned"}
  /\ f_session # "constructed"
  /\ c_pc = "none"
  /\ f_forks < MaxForks
  /\ f_forks' = f_forks + 1
  /\ f_mask' = PrepareHandlers(fork_handlers_registered_, f_mask)
  /\ f_pc' = "prepared"
  /\ UNCHANGED <<fork_handlers_registered_, f_timer, f_action, f_session,
                 c_pc, c_mask, c_action, c_registered, f_handled_at,
                 c_handled_at, forkRest>>

\* The child is made: it has the forking thread's mask and the dispositions
\* of the parent.
ForkClone ==
  /\ f_pc = "prepared"
  /\ c_pc' = "forked"
  /\ c_mask' = f_mask
  /\ c_action' = f_action
  /\ c_registered' = fork_handlers_registered_
  /\ f_pc' = "forked"
  /\ UNCHANGED <<fork_handlers_registered_, f_mask, f_timer, f_action,
                 f_session, f_forks, f_handled_at, c_handled_at, forkRest>>

\* The parent handlers run in the forking thread, and fork returns.
ForkParent ==
  /\ f_pc = "forked"
  /\ f_mask' = ParentHandlers(fork_handlers_registered_, f_mask)
  /\ f_pc' = "returned"
  /\ UNCHANGED <<fork_handlers_registered_, f_timer, f_action, f_session,
                 c_pc, c_mask, c_action, c_registered, f_forks, f_handled_at,
                 c_handled_at, forkRest>>

\* The child handlers run in the child, and fork returns there.
ForkChild ==
  /\ c_pc = "forked"
  /\ c_mask' = ChildHandlers(c_registered, c_mask)
  /\ c_pc' = "returned"
  /\ UNCHANGED <<fork_handlers_registered_, f_pc, f_mask, f_timer, f_action,
                 f_session, c_action, c_registered, f_forks, f_handled_at,
                 c_handled_at, forkRest>>

\* The timer's SIGPROF is delivered to the forking thread, which runs the
\* handler.
ForkSigprofParent ==
  /\ f_timer
  /\ f_action = "handle"
  /\ "SIGPROF" \notin f_mask
  /\ f_handled_at' = f_handled_at \cup {f_pc}
  /\ UNCHANGED <<fork_handlers_registered_, f_pc, f_mask, f_timer, f_action,
                 f_session, c_pc, c_mask, c_action, c_registered, f_forks,
                 c_handled_at, forkRest>>

\* A SIGPROF sent to the child is delivered to its thread, which runs the
\* handler it has from the parent.
ForkSigprofChild ==
  /\ c_pc # "none"
  /\ c_action = "handle"
  /\ "SIGPROF" \notin c_mask
  /\ c_handled_at' = c_handled_at \cup {c_pc}
  /\ UNCHANGED <<fork_handlers_registered_, f_pc, f_mask, f_timer, f_action,
                 f_session, c_pc, c_mask, c_action, c_registered, f_forks,
                 f_handled_at, forkRest>>

\* The child ends.
ForkChildExits ==
  /\ c_pc = "returned"
  /\ c_pc' = "none"
  /\ c_mask' = {}
  /\ c_action' = "default"
  /\ c_registered' = FALSE
  /\ UNCHANGED <<fork_handlers_registered_, f_pc, f_mask, f_timer, f_action,
                 f_session, f_forks, f_handled_at, c_handled_at, forkRest>>

ForkNext ==
  \/ ForkCPUProfiler
  \/ ForkStart
  \/ ForkStop
  \/ \E mask \in SUBSET {"SIGPROF"} : ForkAppSigmask(mask)
  \/ ForkPrepare
  \/ ForkClone
  \/ ForkParent
  \/ ForkChild
  \/ ForkSigprofParent
  \/ ForkSigprofChild
  \/ ForkChildExits

SpecFork == Init /\ [][ForkNext]_vars

\* The forking thread is between its prepare handlers and its parent
\* handlers.
InsideFork == f_pc \in {"prepared", "forked"}

\* C19: around a fork in a process whose fork handlers are registered,
\* SIGPROF is blocked in the forking thread from the prepare handler until
\* the parent handler has run, and in the child until the child handler has
\* run; neither runs the sampling handler in between; and when fork returns
\* in the parent, SIGPROF is unblocked in the forking thread.
C19_SigprofBlockedAroundFork ==
  /\ (fork_handlers_registered_ /\ InsideFork) => "SIGPROF" \in f_mask
  /\ (c_registered /\ c_pc = "forked") => "SIGPROF" \in c_mask
  /\ f_handled_at \cap {"prepared", "forked"} = {}
  /\ "forked" \notin c_handled_at
  /\ (fork_handlers_registered_ /\ f_pc = "returned")
       => "SIGPROF" \notin f_mask
  /\ f_timer => fork_handlers_registered_
  /\ c_action = "handle" => c_registered

\* A fork during sampling: the timer is armed, the handler is installed,
\* the forking thread is inside fork with SIGPROF blocked, and the child
\* has not run its child handler; the forking thread was sampled before.
C19_ForkWhileSampling ==
  /\ f_timer
  /\ f_action = "handle"
  /\ f_pc = "forked"
  /\ c_pc = "forked"
  /\ c_action = "handle"
  /\ "SIGPROF" \in c_mask
  /\ "run" \in f_handled_at

\* The parent is sampled again after fork has returned.
C19_ParentSampledAfterFork ==
  /\ f_timer
  /\ "returned" \in f_handled_at

\* The child runs the handler after its child handler has run.
C19_ChildHandlesAfterFork == "returned" \in c_handled_at

\* A thread that had blocked SIGPROF itself has it unblocked by fork.
C19_ForkUnblocksBlockedThread ==
  /\ f_pc = "returned"
  /\ "run" \notin f_handled_at
  /\ "returned" \in f_handled_at



(***************************************************************************)
(* Failures of materialization.                                            *)
(***************************************************************************)
\* PythonTraces has failed: one of the host's objects could not be made,
\* read or inserted.
MaterializationFailed ==
  exit_path \in {"materialize_failed", "count_not_created"}

\* C20: when materialization fails, Collect returns an error: it returns
\* nullptr, no mapping, and the hook is removed as after every return.
C20_FailureReturnsError ==
  MaterializationFailed
    => /\ s_pc \in {"returning", "idle"}
       /\ py_traces = "nullptr"
       /\ s_pc = "idle" => tp_dealloc = HostCodeDealloc

\* The count of a trace could not be made, PythonTraces has inserted the
\* null pointer, and the process was killed inside Collect: the timer is
\* disarmed, the hook is still installed, and nothing was returned.
C20_KilledByNullCount ==
  /\ exit_path = "count_not_created"
  /\ s_pc = "killed"
  /\ py_traces = "none"
  /\ DOMAIN aggregated_traces_ # {}
  /\ tp_dealloc = HookCodeDealloc

\* The failures PythonTraces tests for make Collect return nullptr, and
\* no mapping.
C20_TestedFailureReturnsError ==
  exit_path = "materialize_failed"
    => /\ s_pc \in {"returning", "idle"}
       /\ py_traces = "nullptr"

\* Collect has returned nullptr after a session that had harvested samples.
C20_SamplesDiscarded ==
  /\ exit_path = "materialize_failed"
  /\ s_pc = "idle"
  /\ py_traces = "nullptr"
  /\ DOMAIN aggregated_traces_ # {}



(***************************************************************************)
(* The protocol of a slot, under Spec: the values of count, who holds a    *)
(* locked slot, and active_updates.                                        *)
(***************************************************************************)
\* The writer is in Add at slot i, at one of the positions pcs.
WriterAt(w, i, pcs) == h_pc[w] \in pcs /\ Idx(w) = i

\* The writers that have won the compare-exchange from 0 to
\* kTraceCountLocked at slot i and have not stored 1 yet.
ClaimingWriters(i) ==
  {w \in Writers : WriterAt(w, i, {"dec_claim", "copy", "publish"})}

\* Extract has exchanged the count of slot i and has not stored 0 yet.
DrainerHolds(i) == d_pc \in {"ext_spin", "ext_store"} /\ d_loc = i

\* The writers between their fetch_add and their fetch_sub at slot i.
UpdatingWriters(i) ==
  {w \in Writers :
     WriterAt(w, i, {"load", "cas_claim", "dec_claim", "compare", "reload",
                     "cas_inc", "dec_inc", "release"})}

\* A step that changes the count of slot i goes along one of the edges.
CountEdge(i) ==
  \/ /\ count[i] = 0
     /\ count'[i] = kTraceCountLocked
     /\ \E w \in Writers :
          WriterAt(w, i, {"cas_claim"}) /\ h_pc'[w] = "dec_claim"
  \/ /\ count[i] = kTraceCountLocked
     /\ count'[i] = 1
     /\ \E w \in Writers : WriterAt(w, i, {"publish"}) /\ h_pc'[w] = "idle"
  \/ /\ count[i] > 0
     /\ count'[i] = count[i] + 1
     /\ \E w \in Writers :
          WriterAt(w, i, {"cas_inc"}) /\ h_pc'[w] = "dec_inc"
  \/ /\ count[i] > 0
     /\ count'[i] = kTraceCountLocked
     /\ d_pc = "ext_xchg" /\ d_loc = i /\ d_pc' = "ext_spin"
  \/ /\ count[i] = kTraceCountLocked
     /\ count'[i] = 0
     /\ d_pc = "ext_store" /\ d_loc = i /\ d_pc' = "ext_ret"

\* C21: the count of every slot is 0, kTraceCountLocked or positive, and a
\* step changes it only from 0 to locked by a claiming writer, from locked
\* to 1 by that writer's store, from k > 0 to k + 1 by a matching writer,
\* from k > 0 to locked by Extract's exchange, and from locked to 0 by
\* Extract's store.
C21_CountEdges ==
  /\ [](\A i \in Slots : count[i] = kTraceCountLocked \/ count[i] >= 0)
  /\ [][\A i \in Slots : count'[i] # count[i] => CountEdge(i)]_vars

\* Extract has locked a slot whose count had gone from 0 to locked, to 1
\* and to 2.
C21_DrainerLocksCountOfTwo ==
  \E i \in Slots :
    /\ DrainerHolds(i)
    /\ count[i] = kTraceCountLocked
    /\ d_c = 2
    /\ absorbed[i] = 2

\* C22: a slot whose count is kTraceCountLocked is held by exactly one
\* party, a writer between its compare-exchange from 0 and its store of 1,
\* or Extract between its exchange and its store of 0; the count Extract
\* has exchanged is positive; and Extract stores 0 in no slot a writer
\* holds.
C22_LockedSlotHasOneOwner ==
  \A i \in Slots :
    /\ count[i] = kTraceCountLocked
         <=> (ClaimingWriters(i) # {} \/ DrainerHolds(i))
    /\ Cardinality(ClaimingWriters(i)) + (IF DrainerHolds(i) THEN 1 ELSE 0)
         <= 1
    /\ DrainerHolds(i) => d_c > 0
    /\ (d_pc = "ext_store" /\ d_loc = i) => ClaimingWriters(i) = {}

\* A writer holds one slot and Extract holds the other.
C22_WriterAndDrainerHold ==
  \E i, j \in Slots :
    /\ i # j
    /\ ClaimingWriters(i) # {}
    /\ d_pc = "ext_store" /\ d_loc = j
    /\ count[i] = kTraceCountLocked
    /\ count[j] = kTraceCountLocked

\* C23: active_updates of a slot is the number of Adds that have done their
\* fetch_add at the slot and not yet their fetch_sub; it is not negative,
\* and it is 0 at every slot when no Add runs.
C23_ActiveUpdatesCountsWriters ==
  /\ \A i \in Slots :
       /\ active_updates[i] = Cardinality(UpdatingWriters(i))
       /\ active_updates[i] >= 0
  /\ (\A w \in Writers : h_pc[w] = "idle")
       => \A i \in Slots : active_updates[i] = 0

\* Two Adds are between fetch_add and fetch_sub at one slot.
C23_TwoWritersInSlot ==
  \E i \in Slots :
    /\ active_updates[i] = 2
    /\ Cardinality(UpdatingWriters(i)) = 2

\* Every Add of the behaviour has returned: active_updates is 0 at every
\* slot, and a slot is published.
C23_BackToZero ==
  /\ \A w \in Writers : h_pc[w] = "idle"
  /\ started = MaxAdds
  /\ \A i \in Slots : active_updates[i] = 0
  /\ \E i \in Slots : count[i] > 0



(***************************************************************************)
(* The protocol of a slot across two sessions, under SpecRestart.          *)
(***************************************************************************)
\* A handler of the first session is in Add while the second session runs.
LeftOverWriter(w) == session = 2 /\ h_session[w] = 1 /\ h_pc[w] # "idle"

\* A writer of the first session that had locked its slot is about to store
\* 1 in it, and the second session's Reset has zeroed the count: the count
\* goes from 0 to 1.
C21_PublishAfterReset ==
  \E w \in Writers :
    /\ LeftOverWriter(w)
    /\ h_pc[w] = "publish"
    /\ count[Idx(w)] = 0

\* A writer of the first session holds a slot that the second session's
\* Reset has released to 0.
C22_ResetReleasedWritersSlot ==
  \E w \in Writers :
    /\ LeftOverWriter(w)
    /\ h_pc[w] \in {"dec_claim", "copy"}
    /\ count[Idx(w)] = 0
    /\ ClaimingWriters(Idx(w)) = {w}

\* No Add runs, and active_updates of a slot is -1: Reset zeroed it between
\* the fetch_add and the fetch_sub of a handler of the first session.
C23_NegativeWhenNoAddRuns ==
  /\ session = 2
  /\ \A w \in Writers : h_pc[w] = "idle"
  /\ \E i \in Slots : active_updates[i] = -1



(***************************************************************************)
(* One slot of the table under the memory orders the code gives its atomic *)
(* operations.  The two atomics of the slot are modification orders of     *)
(* messages; a message carries the view that a load with                   *)
(* memory_order_acquire gains from it, and a thread reads a location at    *)
(* any message from its view of the location on.  A store is the last in   *)
(* the modification order when it is made, a read-modify-write reads the   *)
(* last message and continues its release sequence.  The frame buffer is   *)
(* plain memory.  Thread 0 is the thread of Extract, threads 1 and 2 run   *)
(* handlers; the table has this one slot, so every Add probes it.          *)
(***************************************************************************)
\* The Adds and the Extracts of one behaviour.
MaxOrderAdds == 3
MaxOrderDrains == 1

OrderWriters == {1, 2}
OrderDrainer == 0

\* The traces added: two that differ.
OrderTraces == {"T", "U"}

Max(a, b) == IF a > b THEN a ELSE b

Join(v1, v2) == [c |-> Max(v1.c, v2.c), a |-> Max(v1.a, v2.a)]

\* The view of a thread that has read or written message idx of loc.
Seen(view, loc, idx) == [view EXCEPT ![loc] = Max(@, idx)]

LastMsg(hist) == hist[Len(hist)]

\* The messages of a modification order a thread with this view may read.
Readable(view, loc, hist) == view[loc] .. Len(hist)

\* load(std::memory_order_acquire) of message idx
AcquireLoad(view, loc, hist, idx) ==
  Join(Seen(view, loc, idx), hist[idx].view)

\* load(std::memory_order_relaxed) of message idx, and the load of a
\* compare_exchange_weak(..., relaxed) that fails
RelaxedLoad(view, loc, hist, idx) == Seen(view, loc, idx)

\* The message of store(val, std::memory_order_release)
ReleaseStore(view, loc, hist, val) ==
  [val |-> val, view |-> Seen(view, loc, Len(hist) + 1)]

\* The message of a read-modify-write: it continues the release sequence of
\* the message it reads, and heads one if it is a release.
RmwMessage(view, loc, hist, val, release) ==
  [val |-> val,
   view |-> Seen(IF release THEN Join(view, LastMsg(hist).view)
                 ELSE LastMsg(hist).view,
                 loc, Len(hist) + 1)]

\* The view of the thread after its read-modify-write.
RmwView(view, loc, hist, acquire) ==
  Seen(IF acquire THEN Join(view, LastMsg(hist).view) ELSE view,
       loc, Len(hist) + 1)

\* What the operations on the slot leave alone.
orderRest ==
  <<asmVars, profVars, handlerVars, drainVars, histVars, sessVars, hooks,
    argVars, walkVars, forkVars, timeVars, mapVars>>

\* Profiler::Handle calls Add with a trace.
OrderAddBegins(w, t) ==
  /\ m_pc[w] = "idle"
  /\ m_adds < MaxOrderAdds
  /\ m_adds' = m_adds + 1
  /\ m_in' = [m_in EXCEPT ![w] = t]
  /\ m_pc' = [m_pc EXCEPT ![w] = "fetch_add"]
  /\ UNCHANGED <<m_count, m_active, m_view, m_local, m_buf, m_drains,
                 m_inc_stored, orderRest>>

\* entry.active_updates.fetch_add(1, std::memory_order_acquire)
OrderFetchAdd(w) ==
  /\ m_pc[w] = "fetch_add"
  /\ m_active' =
       Append(m_active,
              RmwMessage(m_view[w], "a", m_active,
                         FetchAdd(LastMsg(m_active).val), FALSE))
  /\ m_view' = [m_view EXCEPT ![w] = RmwView(@, "a", m_active, TRUE)]
  /\ m_pc' = [m_pc EXCEPT ![w] = "load"]
  /\ UNCHANGED <<m_count, m_in, m_local, m_buf, m_adds, m_drains,
                 m_inc_stored, orderRest>>

\* count = entry.count.load(std::memory_order_acquire); switch (count)
OrderLoad(w) ==
  /\ m_pc[w] = "load"
  /\ \E idx \in Readable(m_view[w], "c", m_count) :
       /\ m_local' = [m_local EXCEPT ![w] = m_count[idx].val]
       /\ m_view' = [m_view EXCEPT ![w] = AcquireLoad(@, "c", m_count, idx)]
       /\ m_pc' = [m_pc EXCEPT ![w] =
                     IF m_count[idx].val = 0 THEN "cas_claim"
                     ELSE IF m_count[idx].val = kTraceCountLocked
                       THEN "release"
                     ELSE "compare"]
  /\ UNCHANGED <<m_count, m_active, m_in, m_buf, m_adds, m_drains,
                 m_inc_stored, orderRest>>

\* case 0: compare_exchange_weak(count_zero, kTraceCountLocked, relaxed),
\* which succeeds on the last message if that is 0, or fails.
OrderClaimCas(w) ==
  /\ m_pc[w] = "cas_claim"
  /\ \/ /\ LastMsg(m_count).val = 0
        /\ m_count' =
             Append(m_count,
                    RmwMessage(m_view[w], "c", m_count, kTraceCountLocked,
                               FALSE))
        /\ m_view' = [m_view EXCEPT ![w] = RmwView(@, "c", m_count, FALSE)]
        /\ m_pc' = [m_pc EXCEPT ![w] = "dec_claim"]
     \/ /\ \E idx \in Readable(m_view[w], "c", m_count) :
             m_view' = [m_view EXCEPT ![w] =
                          RelaxedLoad(@, "c", m_count, idx)]
        /\ m_pc' = [m_pc EXCEPT ![w] = "release"]
        /\ UNCHANGED m_count
  /\ UNCHANGED <<m_active, m_in, m_local, m_buf, m_adds, m_drains,
                 m_inc_stored, orderRest>>

\* entry.active_updates.fetch_sub(1, std::memory_order_release)
OrderFetchSub(w) ==
  /\ m_active' =
       Append(m_active,
              RmwMessage(m_view[w], "a", m_active,
                         FetchSub(LastMsg(m_active).val), TRUE))
  /\ m_view' = [m_view EXCEPT ![w] = RmwView(@, "a", m_active, FALSE)]

\* Add returns.
OrderAddReturns(w) ==
  /\ m_pc' = [m_pc EXCEPT ![w] = "idle"]
  /\ m_in' = [m_in EXCEPT ![w] = "none"]
  /\ m_local' = [m_local EXCEPT ![w] = 0]
  /\ m_inc_stored' = [m_inc_stored EXCEPT ![w] = "none"]

\* The entry is reserved: the early fetch_sub.
OrderClaimDec(w) ==
  /\ m_pc[w] = "dec_claim"
  /\ OrderFetchSub(w)
  /\ m_pc' = [m_pc EXCEPT ![w] = "copy"]
  /\ UNCHANGED <<m_count, m_in, m_local, m_buf, m_adds, m_drains,
                 m_inc_stored, orderRest>>

\* The frames are copied into frame_buffer; entry.trace is set.
OrderCopy(w) ==
  /\ m_pc[w] = "copy"
  /\ m_buf' = m_in[w]
  /\ m_pc' = [m_pc EXCEPT ![w] = "publish"]
  /\ UNCHANGED <<m_count, m_active, m_view, m_in, m_local, m_adds, m_drains,
                 m_inc_stored, orderRest>>

\* entry.count.store(1, std::memory_order_release); return true
OrderPublish(w) ==
  /\ m_pc[w] = "publish"
  /\ m_count' = Append(m_count, ReleaseStore(m_view[w], "c", m_count, 1))
  /\ m_view' = [m_view EXCEPT ![w] = Seen(@, "c", Len(m_count) + 1)]
  /\ OrderAddReturns(w)
  /\ UNCHANGED <<m_active, m_buf, m_adds, m_drains, orderRest>>

\* default: the stored trace is compared with the input.
OrderCompare(w) ==
  /\ m_pc[w] = "compare"
  /\ m_pc' = [m_pc EXCEPT ![w] =
                IF m_buf = m_in[w] THEN "reload" ELSE "release"]
  /\ UNCHANGED <<m_count, m_active, m_view, m_in, m_local, m_buf, m_adds,
                 m_drains, m_inc_stored, orderRest>>

\* count = entry.count.load(std::memory_order_relaxed)
OrderReload(w) ==
  /\ m_pc[w] = "reload"
  /\ \E idx \in Readable(m_view[w], "c", m_count) :
       /\ m_local' = [m_local EXCEPT ![w] = m_count[idx].val]
       /\ m_view' = [m_view EXCEPT ![w] = RelaxedLoad(@, "c", m_count, idx)]
       /\ m_pc' = [m_pc EXCEPT ![w] =
                     IF m_count[idx].val # kTraceCountLocked THEN "cas_inc"
                     ELSE "release"]
  /\ UNCHANGED <<m_count, m_active, m_in, m_buf, m_adds, m_drains,
                 m_inc_stored, orderRest>>

\* compare_exchange_weak(count, count + 1, relaxed)
OrderIncCas(w) ==
  /\ m_pc[w] = "cas_inc"
  /\ \/ /\ LastMsg(m_count).val = m_local[w]
        /\ m_count' =
             Append(m_count,
                    RmwMessage(m_view[w], "c", m_count,
                               BumpedCount(m_local[w]), FALSE))
        /\ m_view' = [m_view EXCEPT ![w] = RmwView(@, "c", m_count, FALSE)]
        /\ m_inc_stored' = [m_inc_stored EXCEPT ![w] = m_buf]
        /\ m_pc' = [m_pc EXCEPT ![w] = "dec_inc"]
     \/ /\ \E idx \in Readable(m_view[w], "c", m_count) :
             m_view' = [m_view EXCEPT ![w] =
                          RelaxedLoad(@, "c", m_count, idx)]
        /\ m_pc' = [m_pc EXCEPT ![w] = "release"]
        /\ UNCHANGED <<m_count, m_inc_stored>>
  /\ UNCHANGED <<m_active, m_in, m_local, m_buf, m_adds, m_drains,
                 orderRest>>

\* fetch_sub(1, release); return true
OrderIncDec(w) ==
  /\ m_pc[w] = "dec_inc"
  /\ OrderFetchSub(w)
  /\ OrderAddReturns(w)
  /\ UNCHANGED <<m_count, m_buf, m_adds, m_drains, orderRest>>

\* Did nothing: fetch_sub(1, release); the table has no further slot, and
\* Add returns false.
OrderRelease(w) ==
  /\ m_pc[w] = "release"
  /\ OrderFetchSub(w)
  /\ OrderAddReturns(w)
  /\ UNCHANGED <<m_count, m_buf, m_adds, m_drains, orderRest>>

\* HarvestSamples calls Extract on the slot.
OrderExtractBegins ==
  /\ m_pc[OrderDrainer] = "idle"
  /\ m_drains < MaxOrderDrains
  /\ m_drains' = m_drains + 1
  /\ m_pc' = [m_pc EXCEPT ![OrderDrainer] = "ext_load"]
  /\ UNCHANGED <<m_count, m_active, m_view, m_in, m_local, m_buf, m_adds,
                 m_inc_stored, orderRest>>

\* c = entry.count.load(std::memory_order_acquire); if (c <= 0) return 0
OrderExtractLoad ==
  /\ m_pc[OrderDrainer] = "ext_load"
  /\ \E idx \in Readable(m_view[OrderDrainer], "c", m_count) :
       /\ m_local' = [m_local EXCEPT ![OrderDrainer] = m_count[idx].val]
       /\ m_view' = [m_view EXCEPT ![OrderDrainer] =
                       AcquireLoad(@, "c", m_count, idx)]
       /\ m_pc' = [m_pc EXCEPT ![OrderDrainer] =
                     IF ExtractSkips(m_count[idx].val) THEN "idle"
                     ELSE "ext_num"]
  /\ UNCHANGED <<m_count, m_active, m_in, m_buf, m_adds, m_drains,
                 m_inc_stored, orderRest>>

\* int num_frames = entry.trace.num_frames: a read of the slot's trace
OrderExtractNumFrames ==
  /\ m_pc[OrderDrainer] = "ext_num"
  /\ m_pc' = [m_pc EXCEPT ![OrderDrainer] = "ext_xchg"]
  /\ UNCHANGED <<m_count, m_active, m_view, m_in, m_local, m_buf, m_adds,
                 m_drains, m_inc_stored, orderRest>>

\* c = entry.count.exchange(kTraceCountLocked, std::memory_order_acquire)
OrderExtractExchange ==
  /\ m_pc[OrderDrainer] = "ext_xchg"
  /\ m_local' = [m_local EXCEPT ![OrderDrainer] = LastMsg(m_count).val]
  /\ m_count' =
       Append(m_count,
              RmwMessage(m_view[OrderDrainer], "c", m_count,
                         kTraceCountLocked, FALSE))
  /\ m_view' = [m_view EXCEPT ![OrderDrainer] =
                  RmwView(@, "c", m_count, TRUE)]
  /\ m_pc' = [m_pc EXCEPT ![OrderDrainer] = "ext_copy"]
  /\ UNCHANGED <<m_active, m_in, m_buf, m_adds, m_drains, m_inc_stored,
                 orderRest>>

\* The frames are copied out of the slot.
OrderExtractCopy ==
  /\ m_pc[OrderDrainer] = "ext_copy"
  /\ m_pc' = [m_pc EXCEPT ![OrderDrainer] = "ext_spin"]
  /\ UNCHANGED <<m_count, m_active, m_view, m_in, m_local, m_buf, m_adds,
                 m_drains, m_inc_stored, orderRest>>

\* while (entry.active_updates.load(std::memory_order_acquire) != 0) {}
OrderExtractSpin ==
  /\ m_pc[OrderDrainer] = "ext_spin"
  /\ \E idx \in Readable(m_view[OrderDrainer], "a", m_active) :
       /\ m_view' = [m_view EXCEPT ![OrderDrainer] =
                       AcquireLoad(@, "a", m_active, idx)]
       /\ m_pc' = [m_pc EXCEPT ![OrderDrainer] =
                     IF m_active[idx].val = 0 THEN "ext_store"
                     ELSE "ext_spin"]
  /\ UNCHANGED <<m_count, m_active, m_in, m_local, m_buf, m_adds, m_drains,
                 m_inc_stored, orderRest>>

\* entry.count.store(0, std::memory_order_release); return num_frames
OrderExtractStore ==
  /\ m_pc[OrderDrainer] = "ext_store"
  /\ m_count' =
       Append(m_count, ReleaseStore(m_view[OrderDrainer], "c", m_count, 0))
  /\ m_view' = [m_view EXCEPT ![OrderDrainer] =
                  Seen(@, "c", Len(m_count) + 1)]
  /\ m_local' = [m_local EXCEPT ![OrderDrainer] = 0]
  /\ m_pc' = [m_pc EXCEPT ![OrderDrainer] = "idle"]
  /\ UNCHANGED <<m_active, m_in, m_buf, m_adds, m_drains, m_inc_stored,
                 orderRest>>

OrderNext ==
  \/ \E w \in OrderWriters, t \in OrderTraces : OrderAddBegins(w, t)
  \/ \E w \in OrderWriters : OrderFetchAdd(w)
  \/ \E w \in OrderWriters : OrderLoad(w)
  \/ \E w \in OrderWriters : OrderClaimCas(w)
  \/ \E w \in OrderWriters : OrderClaimDec(w)
  \/ \E w \in OrderWriters : OrderCopy(w)
  \/ \E w \in OrderWriters : OrderPublish(w)
  \/ \E w \in OrderWriters : OrderCompare(w)
  \/ \E w \in OrderWriters : OrderReload(w)
  \/ \E w \in OrderWriters : OrderIncCas(w)
  \/ \E w \in OrderWriters : OrderIncDec(w)
  \/ \E w \in OrderWriters : OrderRelease(w)
  \/ OrderExtractBegins
  \/ OrderExtractLoad
  \/ OrderExtractNumFrames
  \/ OrderExtractExchange
  \/ OrderExtractCopy
  \/ OrderExtractSpin
  \/ OrderExtractStore

SpecOrder == Init /\ [][OrderNext]_vars

\* A writer is about to store into the slot's frame buffer.
OrderWrites(w) == m_pc[w] = "copy"

\* A writer is comparing its trace with the slot's frames.
OrderCompares(w) == m_pc[w] = "compare"

\* Extract is reading the slot's trace.
OrderDrainerReads == m_pc[OrderDrainer] \in {"ext_num", "ext_copy"}

\* C24: no writer stores into the slot's frame buffer, between its
\* compare-exchange from 0 and its store of 1, while another writer compares
\* its trace with the slot's frames or while Extract copies them out.
C24_NoRaceOnFrameBuffer ==
  \A w \in OrderWriters :
    OrderWrites(w) =>
      /\ \A v \in OrderWriters \ {w} : ~OrderCompares(v)
      /\ ~OrderDrainerReads

\* A writer is about to copy the frames of U into the slot while another
\* writer, which has loaded a count that Extract has since exchanged and
\* zeroed, is comparing its trace T with the slot's frames: Extract's load
\* of active_updates read the 0 that precedes that writer's fetch_add.
C24_WriterCopiesWhileOtherCompares ==
  \E w, v \in OrderWriters :
    /\ w # v
    /\ OrderWrites(w) /\ m_in[w] = "U"
    /\ OrderCompares(v) /\ m_in[v] = "T"
    /\ m_buf = "T"
    /\ m_local[v] = 1
    /\ m_drains = 1 /\ m_pc[OrderDrainer] = "idle"
    /\ LastMsg(m_active).val = 1

\* No writer holds the slot while Extract reads its trace.
C24_ExtractReadsAlone ==
  OrderDrainerReads => \A w \in OrderWriters : ~OrderWrites(w)


\* C24 under Spec, where every atomic operation takes effect at once and in
\* one order: no writer is about to store into the frame buffer of a slot
\* while another writer compares with it or Extract reads it.
C24_NoRaceInOneOrder ==
  \A i \in Slots :
    \A w \in Writers :
      WriterAt(w, i, {"copy"}) =>
        /\ \A v \in Writers \ {w} : ~WriterAt(v, i, {"compare"})
        /\ ~(d_pc = "ext_xchg" /\ d_loc = i)


\* C25: every successful compare-exchange from k to k + 1 is made by an Add
\* whose trace equals the trace stored in the slot at the instant of the
\* exchange, so a writer that compared with a trace since drained never
\* increments the count of another trace published in the slot later; and
\* the count the writer reloads before the exchange is never 0.
C25_IncrementOfEqualTrace ==
  \A w \in OrderWriters :
    /\ m_pc[w] = "dec_inc" => m_inc_stored[w] = m_in[w]
    /\ m_pc[w] = "cas_inc" => m_local[w] # 0

\* A writer that added T has incremented the count of a slot that held U at
\* the instant of its compare-exchange: it compared with the T that Extract
\* has drained since, and reloaded the count another writer published for U.
C25_IncrementedOtherTrace ==
  \E w \in OrderWriters :
    /\ m_pc[w] = "dec_inc"
    /\ m_in[w] = "T"
    /\ m_inc_stored[w] = "U"
    /\ m_buf = "U"
    /\ LastMsg(m_count).val = 2
    /\ m_drains = 1

\* A writer has reloaded the count 0 that Extract stored and goes on to its
\* compare-exchange from 0 to 1.
C25_ReloadedZero ==
  \E w \in OrderWriters :
    /\ m_pc[w] = "cas_inc"
    /\ m_local[w] = 0
    /\ LastMsg(m_count).val = 0
    /\ m_pc[OrderDrainer] = "idle" /\ m_drains = 1

\* The compare-exchange from 0 to 1 on the match path has been made: the
\* slot is published again with the frames of the trace drained before.
C25_RepublishedByIncrement ==
  \E w \in OrderWriters :
    /\ m_pc[w] = "dec_inc"
    /\ m_local[w] = 0
    /\ LastMsg(m_count).val = 1

\* C25 under Spec, where every atomic operation takes effect at once and in
\* one order: a writer at its compare-exchange on the match path has a trace
\* equal to the stored one and has reloaded a positive count.
C25_IncrementInOneOrder ==
  \A w \in Writers :
    /\ h_pc[w] \in {"cas_inc", "dec_inc"} =>
         TraceMatches(h_trace[w], trace[Idx(w)])
    /\ h_pc[w] = "cas_inc" => h_count[w] > 0



(***************************************************************************)
(* The order of the steps of Collect, under SpecSession.                   *)
(***************************************************************************)
\* The steps of a Collect that succeeds, as pairs of positions: the
\* constructor, Reset, the hook, Start, Py_BEGIN_ALLOW_THREADS, the harvest
\* loop's end with SetSigprofInterval(0), signal(SIGPROF, SIG_IGN), the last
\* Flush, Py_END_ALLOW_THREADS, PythonTraces and the return.
CollectOrder ==
  {<<"idle", "constructed">>, <<"constructed", "reset">>,
   <<"reset", "hooked">>, <<"hooked", "started">>, <<"started", "loop">>,
   <<"loop", "stopping">>, <<"stopping", "settle">>,
   <<"settle", "final_flush">>, <<"final_flush", "materialize">>,
   <<"materialize", "returning">>, <<"returning", "idle">>}

\* The steps by which a Collect fails: Start returns false, or the process
\* is killed.
CollectFailure ==
  {<<"hooked", "returning">>, <<"started", "killed">>, <<"loop", "killed">>,
   <<"materialize", "killed">>}

\* HarvestSamples is called.
HarvestStarts == d_pc = "idle" /\ d_pc' = "ext_load"

\* The step of Collect that is Profiler::Reset.
ResetStep == s_pc = "constructed" /\ s_pc' = "reset"

\* ITIMER_PROF goes from disarmed to armed, and from armed to disarmed.
TimerArmed == ~timer_armed /\ timer_armed'
TimerDisarmed == timer_armed /\ ~timer_armed'

\* PythonTraces hands out a mapping.
MappingMade == exit_path # "normal" /\ exit_path' = "normal"

\* C26: within one successful collect call the steps come in this order:
\* reset (the table is cleared, unknown_stack_count_ is zeroed and the
\* handler is installed), the timer is armed, the periodic harvests, the
\* timer is disarmed, SIGPROF is set to be ignored, one settle harvest,
\* materialization.  No harvest and no materialization precedes arming, and
\* the timer is not disarmed before the last periodic harvest has returned.
C26_StepsInOrder ==
  /\ [][s_pc' # s_pc => <<s_pc, s_pc'>> \in CollectOrder \cup CollectFailure]_vars
  /\ [][ResetStep
          => /\ \A i \in Slots : count'[i] = 0 /\ active_updates'[i] = 0
             /\ unknown_stack_count_' = 0
             /\ ~set_action_failed' => sig_action' = "handle"]_vars
  /\ [][TimerArmed
          => /\ s_pc = "hooked" /\ s_pc' = "started"
             /\ aggregated_traces_ = <<>>
             /\ py_traces = "none"
             /\ d_pc = "idle"]_vars
  /\ [][HarvestStarts
          => \/ s_pc = "loop" /\ s_pc' = "loop"
             \/ /\ s_pc = "settle" /\ s_pc' = "final_flush"
                /\ ~timer_armed
                /\ sig_action = "ignore"]_vars
  /\ [][TimerDisarmed
          => \/ s_pc = "loop" /\ s_pc' = "stopping" /\ d_pc = "idle"
             \/ s_pc' = "killed"]_vars
  /\ [][(sig_action # "ignore" /\ sig_action' = "ignore")
          => s_pc = "stopping" /\ ~timer_armed]_vars
  /\ [][(s_pc = "stopping" /\ s_pc' = "settle")
          => sig_action' = "ignore"]_vars
  /\ [][(s_pc = "final_flush" /\ s_pc' = "materialize")
          => d_pc = "idle"]_vars
  /\ [][MappingMade
          => /\ s_pc = "materialize"
             /\ ~timer_armed
             /\ sig_action = "ignore"
             /\ d_pc = "idle"]_vars
  /\ [](d_pc \notin {"idle", "killed"} => s_pc \in {"loop", "final_flush"})

\* A collect call has gone through all its steps: its handler was installed,
\* it has sampled, harvested in the loop and after Stop, and is about to
\* return the mapping it made.
C26_SuccessfulCollect ==
  /\ s_pc = "returning"
  /\ exit_path = "normal"
  /\ ~set_action_failed
  /\ duration_nanos_ = kMarginLaps * FlushInterval
  /\ sampled[session] > 0
  /\ py_traces # <<>>
  /\ ~timer_armed
  /\ sig_action = "ignore"



(***************************************************************************)
(* The hook on PyCode_Type.tp_dealloc during a session, under SpecSession. *)
(***************************************************************************)
\* The positions of Collect from Start's return to the return of
\* PythonTraces: a handler may sample, or samples are held that
\* PythonTraces has yet to resolve.
SamplingToMaterialized ==
  {"started", "loop", "stopping", "settle", "final_flush", "materialize"}

\* The hook's wrapper is PyCode_Type.tp_dealloc.
HookInstalled == tp_dealloc = HookCodeDealloc

\* The code record at address a is destroyed in the step.
RecordDies(a) == heap[a].live /\ ~heap'[a].live

\* C27: the hook is installed in every state in which the timer is armed
\* and stays installed until materialization has finished; it is installed
\* before the timer is armed and uninstalled only after PythonTraces has
\* returned (or Start has failed), so every code record destroyed from the
\* first possible sample to the end of materialization is in the map.
C27_HookCoversSession ==
  /\ [](timer_armed => HookInstalled)
  /\ [](s_pc \in SamplingToMaterialized => HookInstalled)
  /\ [][(~HookInstalled /\ HookInstalled')
          => s_pc = "reset" /\ ~timer_armed /\ ~timer_armed']_vars
  /\ [][(HookInstalled /\ ~HookInstalled')
          => /\ s_pc = "returning"
             /\ exit_path \in {"start_failed", "normal", "materialize_failed"}
             /\ ~timer_armed]_vars
  /\ [][\A a \in DOMAIN heap :
          (RecordDies(a) /\ s_pc \in SamplingToMaterialized)
            => a \in DOMAIN deallocated_code_']_vars
  /\ [](s_pc \in SamplingToMaterialized \cup {"returning"}
          => DOMAIN first_death \subseteq DOMAIN deallocated_code_)

\* A code record has been destroyed while the timer is armed, and the map
\* holds its address with the FuncLoc read from it.
C27_DeathRecordedWhileArmed ==
  /\ timer_armed
  /\ HookInstalled
  /\ s_pc = "loop"
  /\ \E a \in DOMAIN heap :
       /\ ~heap[a].live
       /\ a \in DOMAIN deallocated_code_
       /\ deallocated_code_[a] = GetFuncLoc(heap[a])

\* A record destroyed during the session is in the map when PythonTraces
\* has returned the mapping, and the hook is still installed.
C27_RecordedAtMaterialization ==
  /\ s_pc = "returning"
  /\ exit_path = "normal"
  /\ HookInstalled
  /\ first_death # <<>>
  /\ DOMAIN first_death \subseteq DOMAIN deallocated_code_



(***************************************************************************)
(* The GIL in Collect's thread, under SpecSession.                         *)
(***************************************************************************)
\* The positions of Collect between Py_BEGIN_ALLOW_THREADS and
\* Py_END_ALLOW_THREADS: the sleeps and harvests of the loop, Stop, and the
\* sleep and the harvest after it.
AllowThreads == {"loop", "stopping", "settle", "final_flush"}

\* The wrapper is installed, and is removed, in the step.
HookSet == ~HookInstalled /\ HookInstalled'
HookRemoved == HookInstalled /\ ~HookInstalled'

\* deallocated_code_ gets an entry, and loses its entries, in the step.
MapInserted ==
  /\ DOMAIN deallocated_code_ \subseteq DOMAIN deallocated_code_'
  /\ DOMAIN deallocated_code_ # DOMAIN deallocated_code_'

\* The step of ProfileCPU that constructs the CPUProfiler, whose base
\* Profiler calls Reset.
ConstructorStep == s_pc = "idle" /\ s_pc' = "constructed"

\* C28: Collect's thread holds the GIL during Reset, the installation of the
\* hook, the arming of the timer, materialization and the removal of the
\* hook, and does not hold it during the sleeps and harvests of the loop,
\* Stop, and the settle sleep and harvest; so deallocated_code_ is read by
\* PythonTraces and cleared by Reset only with the lock held under which the
\* wrapper inserts.
C28_GilAroundSession ==
  /\ [](s_pc \in {"constructed", "reset", "hooked", "started", "materialize",
                  "returning"} => gil_held)
  /\ [](s_pc \in AllowThreads => ~gil_held)
  /\ [][(ResetStep \/ HookSet \/ TimerArmed \/ MappingMade \/ HookRemoved)
          => gil_held]_vars
  /\ [][(HarvestStarts \/ (TimerDisarmed /\ s_pc' # "killed")
           \/ (s_pc = "stopping" /\ s_pc' = "settle"))
          => ~gil_held /\ ~gil_held']_vars
  /\ [][d_pc' \notin {d_pc, "killed"} => ~gil_held]_vars
  /\ [][ConstructorStep => gil_held']_vars
  /\ [][deallocated_code_' # deallocated_code_
          => MapInserted /\ ~gil_held /\ HookInstalled]_vars

\* PythonTraces is about to read a map that the wrapper has filled while
\* Collect's thread slept without the GIL; the thread holds the GIL again.
C28_MapReadUnderLock ==
  /\ s_pc = "materialize"
  /\ gil_held
  /\ deallocated_code_ # <<>>
  /\ \E t \in DOMAIN aggregated_traces_ :
       CodesOf(t) \cap DOMAIN deallocated_code_ # {}



(***************************************************************************)
(* The time of Collect: the harvest loop, the sleep until finish_line,     *)
(* Stop, and the sleep and the harvest after it, against CLOCK_MONOTONIC.  *)
(* A second is kNanosPerSecond units of the clock, scaled, and a sleep     *)
(* wakes at the time it asks for.  A harvest takes some time.              *)
(***************************************************************************)
\* clock.h: kNanosPerSecond, scaled.
kNanosPerSecond == 20

\* The longest duration_nanos, and the longest time a Flush takes.
MaxDurationNanos == 30
MaxFlushNanos == 3

\* A struct timespec.
TimeSpec(sec, nsec) == [tv_sec |-> sec, tv_nsec |-> nsec]

\* The nanoseconds a timespec stands for, whether it is normalized or not.
Nanos(ts) == ts.tv_sec * kNanosPerSecond + ts.tv_nsec

\* NanosToTimeSpec, for nanos >= 0.
NanosToTimeSpec(nanos) ==
  TimeSpec(nanos \div kNanosPerSecond, nanos % kNanosPerSecond)

\* A TimeAdd that carries a full second too.
TimeAddCarried(t1, t2) == NanosToTimeSpec(Nanos(t1) + Nanos(t2))

\* TimeAdd: the second is carried only if (t.tv_nsec > kNanosPerSecond).
TimeAdd(t1, t2) ==
  LET t == TimeSpec(t1.tv_sec + t2.tv_sec, t1.tv_nsec + t2.tv_nsec)
  IN IF t.tv_nsec > kNanosPerSecond
       THEN TimeSpec(t.tv_sec + (t.tv_nsec \div kNanosPerSecond),
                     t.tv_nsec % kNanosPerSecond)
       ELSE t

TimeLessThan(t1, t2) ==
  \/ t1.tv_sec < t2.tv_sec
  \/ t1.tv_sec = t2.tv_sec /\ t1.tv_nsec < t2.tv_nsec

\* struct timespec flush_interval = {0, 100 * 1000 * 1000}
flush_interval == TimeSpec(0, kNanosPerSecond \div 10)

\* An AlmostThere with a margin of one lap.
AlmostThereOneLap(finish, now, lap) == TimeLessThan(finish, TimeAdd(now, lap))

\* AlmostThere(finish, lap) at the time now: margin_laps = 2
AlmostThereAt(finish, now, lap) ==
  TimeLessThan(finish,
               TimeAdd(now, TimeSpec(lap.tv_sec * kMarginLaps,
                                     lap.tv_nsec * kMarginLaps)))

\* clock_nanosleep returns EINVAL for a timespec whose tv_nsec is not in
\* 0 .. 999999999 or whose tv_sec is negative.
ValidTimeSpec(ts) ==
  ts.tv_sec >= 0 /\ ts.tv_nsec >= 0 /\ ts.tv_nsec < kNanosPerSecond

\* The clock when clock_nanosleep(CLOCK_MONOTONIC, TIMER_ABSTIME, &ts) has
\* returned 0: the time asked for, or now if that is past.
WokenAt(now, ts) == IF Nanos(ts) > Nanos(now) THEN NanosToTimeSpec(Nanos(ts)) ELSE now

\* The clock after some time has passed.
Later(now, nanos) == NanosToTimeSpec(Nanos(now) + nanos)

\* The clock when profile_cpu is called, and the durations it is given.
StartTimes == {NanosToTimeSpec(n) : n \in 0 .. (kNanosPerSecond - 1)}
DurationNanos == 0 .. MaxDurationNanos
FlushNanos == 0 .. MaxFlushNanos

timeRest ==
  <<asmVars, profVars, handlerVars, drainVars, histVars, sessVars, hooks,
    argVars, walkVars, forkVars, orderVars, mapVars>>

\* Collect, after Start: Py_BEGIN_ALLOW_THREADS;
\* finish_line = TimeAdd(clock->Now(), NanosToTimeSpec(duration_nanos_))
TimeBegin(now, duration) ==
  /\ t_pc = "idle"
  /\ t_now' = now
  /\ t_duration' = duration
  /\ t_finish' = TimeAdd(now, NanosToTimeSpec(duration))
  /\ t_begin' = Nanos(now)
  /\ t_stopped' = -1
  /\ t_einval' = FALSE
  /\ t_pc' = "loop"
  /\ UNCHANGED timeRest

\* while (!AlmostThere(finish_line, flush_interval))
\*   clock->SleepFor(flush_interval);
TimeLoopSleep ==
  /\ t_pc = "loop"
  /\ ~AlmostThereAt(t_finish, t_now, flush_interval)
  /\ t_now' = Later(t_now, Nanos(flush_interval))
  /\ t_pc' = "flush"
  /\ UNCHANGED <<t_duration, t_finish, t_einval, t_begin, t_stopped,
                 timeRest>>

\* Flush(), in the loop: it takes some time.
TimeLoopFlush(nanos) ==
  /\ t_pc = "flush"
  /\ t_now' = Later(t_now, nanos)
  /\ t_pc' = "loop"
  /\ UNCHANGED <<t_duration, t_finish, t_einval, t_begin, t_stopped,
                 timeRest>>

\* AlmostThere returns true: the loop ends.
TimeLoopEnds ==
  /\ t_pc = "loop"
  /\ AlmostThereAt(t_finish, t_now, flush_interval)
  /\ t_pc' = "sleep_until"
  /\ UNCHANGED <<t_now, t_duration, t_finish, t_einval, t_begin, t_stopped,
                 timeRest>>

\* Clock::SleepUntil(ts): while (clock_nanosleep(CLOCK_MONOTONIC,
\* TIMER_ABSTIME, &ts, nullptr) > 0) {}.  The call returns 0 at ts, or
\* EINVAL at once, and then the loop calls it again.
SleepUntil(ts, next) ==
  IF ValidTimeSpec(ts)
    THEN /\ t_now' = WokenAt(t_now, ts)
         /\ t_pc' = next
         /\ UNCHANGED t_einval
    ELSE /\ t_einval' = TRUE
         /\ UNCHANGED <<t_now, t_pc>>

\* clock->SleepUntil(finish_line)
TimeSleepUntilFinish ==
  /\ t_pc = "sleep_until"
  /\ SleepUntil(t_finish, "stop")
  /\ UNCHANGED <<t_duration, t_finish, t_begin, t_stopped, timeRest>>

\* Stop()
TimeStop ==
  /\ t_pc = "stop"
  /\ t_stopped' = Nanos(t_now)
  /\ t_pc' = "settle"
  /\ UNCHANGED <<t_now, t_duration, t_finish, t_einval, t_begin, timeRest>>

\* clock->SleepUntil(TimeAdd(finish_line, flush_interval))
TimeSettle ==
  /\ t_pc = "settle"
  /\ SleepUntil(TimeAdd(t_finish, flush_interval), "final_flush")
  /\ UNCHANGED <<t_duration, t_finish, t_begin, t_stopped, timeRest>>

\* Flush(); Py_END_ALLOW_THREADS
TimeFinalFlush(nanos) ==
  /\ t_pc = "final_flush"
  /\ t_now' = Later(t_now, nanos)
  /\ t_pc' = "materialize"
  /\ UNCHANGED <<t_duration, t_finish, t_einval, t_begin, t_stopped,
                 timeRest>>

\* PythonTraces, and Collect returns; the call is over.
TimeReturn ==
  /\ t_pc = "materialize"
  /\ t_pc' = "idle"
  /\ t_now' = TimeSpec(0, 0)
  /\ t_duration' = 0
  /\ t_finish' = TimeSpec(0, 0)
  /\ t_einval' = FALSE
  /\ t_begin' = 0
  /\ t_stopped' = -1
  /\ UNCHANGED timeRest

TimeNext ==
  \/ \E now \in StartTimes, duration \in DurationNanos :
       TimeBegin(now, duration)
  \/ TimeLoopSleep
  \/ \E nanos \in FlushNanos : TimeLoopFlush(nanos)
  \/ TimeLoopEnds
  \/ TimeSleepUntilFinish
  \/ TimeStop
  \/ TimeSettle
  \/ \E nanos \in FlushNanos : TimeFinalFlush(nanos)
  \/ TimeReturn

SpecTime == Init /\ [][TimeNext]_vars

\* finish_line as a time: the clock at Py_BEGIN_ALLOW_THREADS plus the
\* duration.
Deadline == t_begin + t_duration

\* The time left until the deadline; negative when it is past.
TimeLeftNow == Deadline - Nanos(t_now)


\* A sleep-then-harvest iteration of the loop starts.
IterationStarts == t_pc = "loop" /\ t_pc' = "flush"

\* Stop has disarmed the timer.
TimerStopped == t_stopped # -1

C29_DisarmedOnTime ==
  /\ t_pc = "settle"
  /\ t_stopped = Deadline
  /\ t_duration >= 2 * kMarginLaps * Nanos(flush_interval)



(***************************************************************************)
(* Termination of Collect, under SpecTimeLive: the thread of Collect keeps *)
(* running, and a harvest returns after some time.                         *)
(***************************************************************************)
\* The steps of Collect's thread once profile_cpu has been called.
TimeProgress ==
  \/ TimeLoopSleep
  \/ \E nanos \in FlushNanos : TimeLoopFlush(nanos)
  \/ TimeLoopEnds
  \/ TimeSleepUntilFinish
  \/ TimeStop
  \/ TimeSettle
  \/ \E nanos \in FlushNanos : TimeFinalFlush(nanos)
  \/ TimeReturn

SpecTimeLive == Init /\ [][TimeNext]_vars /\ WF_vars(TimeProgress)

\* C30: every collect call terminates, for every duration and every start
\* time on the monotonic clock: the harvest loop ends, the sleep until the
\* deadline and the settle sleep return, and the session is idle again.
C30_CollectTerminates == (t_pc # "idle") ~> (t_pc = "idle")

\* The clock's nanoseconds at the start and those of the duration add up to
\* one second: TimeAdd has left finish_line with tv_nsec = kNanosPerSecond,
\* clock_nanosleep has returned EINVAL, and SleepUntil calls it again,
\* without end; the timer stays armed.
C30_SleepUntilSpins ==
  /\ t_pc = "sleep_until"
  /\ t_einval
  /\ t_finish.tv_nsec = kNanosPerSecond
  /\ ~TimerStopped

\* finish_line is a valid timespec and the timer is disarmed, but
\* TimeAdd(finish_line, flush_interval) has tv_nsec = kNanosPerSecond: the
\* settle sleep does not return.
C30_SettleSpins ==
  /\ t_pc = "settle"
  /\ t_einval
  /\ ValidTimeSpec(t_finish)
  /\ TimeAdd(t_finish, flush_interval).tv_nsec = kNanosPerSecond

\* The sleeps of Collect return whenever their timespec is valid: a sleep
\* that does not return has been given a tv_nsec of kNanosPerSecond by
\* TimeAdd, where a TimeAdd that carries a full second gives a valid one.
C30_SpinsOnlyOnFullSecond ==
  /\ t_einval => t_pc \in {"sleep_until", "settle"}
  /\ (t_pc = "sleep_until" /\ t_einval)
       => /\ t_finish.tv_nsec = kNanosPerSecond
          /\ ValidTimeSpec(TimeAddCarried(NanosToTimeSpec(t_begin),
                                          NanosToTimeSpec(t_duration)))
  /\ (t_pc = "settle" /\ t_einval)
       => /\ TimeAdd(t_finish, flush_interval).tv_nsec = kNanosPerSecond
          /\ ValidTimeSpec(TimeAddCarried(t_finish, flush_interval))


\* Under SpecRestart: the last Flush of the second session spins in Extract
\* on a slot whose active_updates a handler of the first session has left
\* negative (C7); the timer is disarmed, no handler runs, and nothing will
\* raise the value.
C30_ExtractSpinsOnNegative ==
  /\ session = 2
  /\ s_pc = "final_flush"
  /\ d_pc = "ext_spin"
  /\ active_updates[d_loc] < 0
  /\ ~timer_armed
  /\ \A w \in Writers : h_pc[w] = "idle"



(***************************************************************************)
(* Termination of Extract's spin-wait.  Threads are scheduled fairly: a    *)
(* handler that has been invoked goes on until it returns, and the thread  *)
(* of Collect and of HarvestSamples goes on while it can.  The number of   *)
(* handler invocations is bounded.  A handler that interrupts the thread   *)
(* of Extract is one of the interleavings: Extract takes no step while     *)
(* that handler runs, and the handler waits for nothing.                   *)
(***************************************************************************)
\* The steps of the harvesting thread on the table alone.
HarvestProgress ==
  \/ ExtractStep /\ UNCHANGED compVars

\* The steps of one handler invocation inside Add.
AddProgress(w) == AddStep(w) /\ UNCHANGED compVars

SpecLive ==
  /\ Init
  /\ [][Next]_vars
  /\ WF_vars(HarvestProgress)
  /\ \A w \in Writers : WF_vars(AddProgress(w))

\* Every step of the harvesting thread and of a handler changes a position.
positions == <<d_pc, h_pc>>

\* Two sessions.  While Extract runs, the thread of Collect has no other
\* step than Extract's, so that the fairness of Extract's steps is the
\* fairness of Collect's thread there.
SpecRestartLive ==
  /\ Init
  /\ [][RestartNext]_vars
  /\ WF_positions(HarvestProgress)
  /\ \A w \in SessionWriters : WF_positions(AddProgress(w))

\* C31: Extract's spin-wait on the slot's active_updates terminates under
\* fair scheduling, when every Add in progress completes and finitely many
\* Adds are started: an Extract that has locked its slot gets to store 0.
\* (A process that the default action of SIGPROF kills waits no longer.)
C31_SpinWaitTerminates ==
  (d_pc = "ext_spin") ~> (d_pc = "ext_store" \/ s_pc = "killed")

\* One session: the first Reset creates the table and no handler of an
\* earlier session runs, and C31_SpinWaitTerminates holds.
SpecSessionLive ==
  /\ Init
  /\ [][SessionNext]_vars
  /\ WF_positions(HarvestProgress)
  /\ \A w \in SessionWriters : WF_positions(AddProgress(w))

\* The spin-wait of the second session does not end: every handler has
\* returned, the timer is disarmed, and the slot's active_updates is -1,
\* lowered by a handler of the first session after the second session's
\* Reset had zeroed it (C7).
C31_SpinsOnNegative ==
  /\ session = 2
  /\ d_pc = "ext_spin"
  /\ active_updates[d_loc] = -1
  /\ ~timer_armed
  /\ sampled[2] = 0
  /\ \A w \in Writers : h_pc[w] = "idle"

\* On the table alone, and in the session that follows the first Reset, no
\* handler leaves active_updates changed: when no handler is inside Add the
\* value Extract waits for is 0.
C31_ZeroWhenNoAddRuns ==
  (\A w \in Writers : h_pc[w] = "idle")
    => \A i \in Slots : active_updates[i] = 0

\* Extract spins while a handler is between its fetch_add and its fetch_sub
\* on the slot.
C31_SpinsOnRunningAdd ==
  /\ d_pc = "ext_spin"
  /\ active_updates[d_loc] > 0
  /\ \E w \in Writers : h_pc[w] \notin {"idle", "fetch_add"} /\ Idx(w) = d_loc



(***************************************************************************)
(* Add is wait-free.  Only the handler's own thread is scheduled fairly:   *)
(* the other handlers and the harvesting thread may stop anywhere.         *)
(***************************************************************************)
SpecAddLive ==
  /\ Init
  /\ [][Next]_vars
  /\ \A w \in Writers : WF_vars(AddProgress(w))

\* Where a handler is in the body of Add's loop, in the order of the code.
AddRank(pc) ==
  CASE pc = "fetch_add" -> 0
    [] pc = "load" -> 1
    [] pc \in {"cas_claim", "compare"} -> 2
    [] pc = "reload" -> 3
    [] pc = "cas_inc" -> 4
    [] pc \in {"dec_claim", "dec_inc"} -> 5
    [] pc = "copy" -> 6
    [] pc = "publish" -> 7
    [] pc = "release" -> 8
    [] OTHER -> 9

\* The statements of Add executed so far are bounded by this measure: the
\* probes finished, and the position in the running probe.
AddMeasure(w) == h_i[w] * 10 + AddRank(h_pc[w])

\* hash_val % MaxEntries()
HashSlot(t) == BVMod(HashVal[t], NumSlots)

\* A step of handler w inside Add.
AddStepOf(w) == h_pc[w] # "idle" /\ h_pc'[w] # h_pc[w]

\* C32: Add is wait-free.  A handler inside Add can always take its next
\* step, whatever the other handlers and Extract have done; each step
\* returns or moves forward in the loop, never back; the probe j looks at
\* slot (hash + j) mod N and at no other, j goes from 0 up by one, and Add
\* returns false only after probe N - 1: at most N probes, each slot once.
C32_AddIsWaitFree ==
  /\ [](\A w \in Writers :
          h_pc[w] # "idle"
            => /\ ENABLED AddStep(w)
               /\ h_i[w] \in Slots
               /\ Idx(w) = (HashSlot(h_trace[w]) + h_i[w]) % NumSlots
               /\ h_pc[w] = "ret_false" => h_i[w] = NumSlots - 1)
  /\ [][\A w \in Writers :
          AddStepOf(w)
            => /\ \/ h_pc'[w] = "idle"
                  \/ /\ AddMeasure(w)' > AddMeasure(w)
                     /\ h_i'[w] \in {h_i[w], h_i[w] + 1}
                     /\ h_i'[w] = h_i[w] + 1 => h_pc'[w] = "fetch_add"
                     /\ h_trace'[w] = h_trace[w]
               /\ \A i \in Slots \ {Idx(w)} :
                    /\ active_updates'[i] = active_updates[i]
                    /\ count'[i] = count[i]
                    /\ trace'[i] = trace[i]]_vars
  /\ \A t \in AllTraces :
       {ProbeIdx[t, j] : j \in Slots} = Slots

\* Every Add returns, with no fairness but that of its own thread.
C32_AddReturns ==
  \A w \in Writers : (h_pc[w] # "idle") ~> (h_pc[w] = "idle")

\* An Add has passed over every slot and is about to return false while
\* Extract holds a slot locked and spins.
C32_ReturnsFalseBesideExtract ==
  \E w \in Writers :
    /\ h_pc[w] = "ret_false"
    /\ h_i[w] = NumSlots - 1
    /\ d_pc = "ext_spin"
    /\ count[d_loc] = kTraceCountLocked

\* An Add is about to return false while another handler holds a slot
\* locked and has not published it.
C32_ReturnsFalseBesideWriter ==
  \E w \in Writers :
    /\ h_pc[w] = "ret_false"
    /\ \E v \in Writers \ {w} : h_pc[v] \in {"dec_claim", "copy", "publish"}



(***************************************************************************)
(* TraceMultiset on its own: the growable multiset as the entries of its   *)
(* std::unordered_map, filled by HarvestSamples from what Extract returns  *)
(* for one slot after the other.  The same trace may come from several     *)
(* slots, of one harvest or of several.                                    *)
(***************************************************************************)
\* The slots extracted since the map was created are at most this many.
MaxMapSlots == 4

\* Traces found in slots: none, one frame, another frame, and both.
MapTraces ==
  {<<>>, <<HostFrame(1, 1)>>, <<HostFrame(2, 1)>>,
   <<HostFrame(1, 1), HostFrame(2, 1)>>}

\* What a slot holds when Extract looks at it: nothing (count 0), or a
\* trace with its count.
ExtractedSlots ==
  {[trace |-> <<>>, count |-> 0]}
    \cup {[trace |-> t, count |-> c] : t \in MapTraces, c \in 1 .. 2}

\* TraceMultiset::TraceHash
TraceHash(t) == CalculateHash(t)

\* An equality that would compare the sizes only.
TraceEqualSizes(t1, t2) == Len(t1) = Len(t2)

\* TraceMultiset::TraceEqual
TraceEqual(t1, t2) ==
  IF Len(t1) # Len(t2) THEN FALSE ELSE Equal(Len(t1), t1, t2)

\* traces_.find(trace): the entries whose key the map's equality accepts.
CountMapFind(entries, t) ==
  {k \in 1 .. Len(entries) : TraceEqual(entries[k].first, t)}

\* TraceMultiset::Add on the entries: entry->second += count, or
\* traces_.emplace(trace, count).
CountMapAdd(entries, t, c) ==
  IF CountMapFind(entries, t) # {}
    THEN LET k == CHOOSE j \in CountMapFind(entries, t) :
                    \A l \in CountMapFind(entries, t) : j <= l
         IN [entries EXCEPT ![k].second = @ + c]
    ELSE Append(entries, [first |-> t, second |-> c])

\* int num_frames = from->Extract(i, kMaxFramesToCapture, &frame[0], &count)
ExtractedFrames(slot) ==
  IF ExtractSkips(slot.count) THEN 0
  ELSE Min(Len(slot.trace), kMaxFramesToCapture)

mapRest ==
  <<asmVars, profVars, handlerVars, drainVars, histVars, sessVars, hooks,
    argVars, walkVars, forkVars, orderVars, timeVars>>

\* The body of HarvestSamples' loop for one slot.
MapHarvestSlot(slot) ==
  /\ Len(g_extracted) < MaxMapSlots
  /\ g_extracted' = Append(g_extracted, slot)
  /\ g_traces' =
       IF HarvestKeeps(ExtractedFrames(slot), slot.count)
         THEN CountMapAdd(g_traces,
                          SubSeq(slot.trace, 1, ExtractedFrames(slot)),
                          slot.count)
         ELSE g_traces
  /\ UNCHANGED mapRest

\* A new CPUProfiler, with an empty TraceMultiset.
MapCreated ==
  /\ g_extracted # <<>>
  /\ g_traces' = <<>>
  /\ g_extracted' = <<>>
  /\ UNCHANGED mapRest

MapNext ==
  \/ \E slot \in ExtractedSlots : MapHarvestSlot(slot)
  \/ MapCreated

SpecMap == Init /\ [][MapNext]_vars

\* The sum of the counts of the extracted slots that held trace t.
RECURSIVE ExtractedSum(_, _)
ExtractedSum(slots, t) ==
  IF slots = <<>> THEN 0
  ELSE ExtractedSum(Tail(slots), t)
         + (IF Head(slots).trace = t /\ Head(slots).count > 0
              THEN Head(slots).count ELSE 0)

\* The growable multiset of the sessions' model, filled from the same slots.
RECURSIVE HarvestedInto(_, _)
HarvestedInto(traces, slots) ==
  IF slots = <<>> THEN traces
  ELSE HarvestedInto(
         IF HarvestKeeps(ExtractedFrames(Head(slots)), Head(slots).count)
           THEN TraceMultisetAdd(traces, Head(slots).trace,
                                 Head(slots).count)
           ELSE traces,
         Tail(slots))

\* The entries as a mapping from keys to counts.
CountMapKeys == {g_traces[k].first : k \in 1 .. Len(g_traces)}
CountMapValue(t) ==
  SumOver([k \in 1 .. Len(g_traces) |->
             IF g_traces[k].first = t THEN g_traces[k].second ELSE 0],
          1 .. Len(g_traces))

\* C33: duplicate slots are reconciled.  No two entries of the growable
\* multiset have keys that are equal as frame sequences; an entry's count
\* is the sum of the counts extracted from all slots that held its trace;
\* every trace with a frame that was extracted with a count has an entry.
\* (Equal keys have equal hashes, as the map requires, and the mapping is
\* the one the sessions' model keeps.)
C33_DuplicatesReconciled ==
  /\ \A j, k \in 1 .. Len(g_traces) :
       j # k => g_traces[j].first # g_traces[k].first
  /\ \A k \in 1 .. Len(g_traces) :
       /\ g_traces[k].second = ExtractedSum(g_extracted, g_traces[k].first)
       /\ g_traces[k].second > 0
  /\ \A i \in 1 .. Len(g_extracted) :
       (Len(g_extracted[i].trace) > 0 /\ g_extracted[i].count > 0)
         => g_extracted[i].trace \in CountMapKeys
  /\ g_extracted = <<>> =>
       \A t1, t2 \in MapTraces :
         /\ TraceEqual(t1, t2) <=> t1 = t2
         /\ TraceEqual(t1, t2) => TraceHash(t1) = TraceHash(t2)
  /\ LET gm == HarvestedInto(<<>>, g_extracted)
     IN /\ DOMAIN gm = CountMapKeys
        /\ \A t \in DOMAIN gm : gm[t] = CountMapValue(t)

\* The same trace was extracted from two slots, another trace of the same
\* length from a third, and the multiset holds the first under one key with
\* the sum of the two counts.
C33_TwoSlotsOneKey ==
  \E i, j, l \in 1 .. Len(g_extracted) :
    /\ i < j
    /\ g_extracted[i].trace = g_extracted[j].trace
    /\ Len(g_extracted[i].trace) > 0
    /\ g_extracted[i].count > 0
    /\ g_extracted[j].count > 0
    /\ g_extracted[l].count > 0
    /\ Len(g_extracted[l].trace) = Len(g_extracted[i].trace)
    /\ g_extracted[l].trace # g_extracted[i].trace
    /\ Len(g_traces) = 2
    /\ CountMapValue(g_extracted[i].trace)
         = g_extracted[i].count + g_extracted[j].count

\* Under Spec: two handlers have published the same trace in two slots of
\* the fixed table, the second having passed over the slot the first held
\* locked.
C33_DuplicateSlots ==
  \E i, j \in Slots :
    /\ i # j
    /\ count[i] > 0
    /\ count[j] > 0
    /\ trace[i] = trace[j]
    /\ Len(trace[i]) > 0

\* Under Spec: after the harvest the growable multiset holds that trace
\* once, with the count of both slots.
C33_DuplicateSlotsHarvested ==
  /\ Quiescent
  /\ \E t \in DOMAIN aggregated_traces_ :
       /\ aggregated_traces_[t] = 2
       /\ published[0] = t
       /\ published[1] = t



(***************************************************************************)
(* The map of destroyed code records shadows the records that live at the  *)
(* same addresses, under SpecSession.                                      *)
(***************************************************************************)
\* The (name, filename, lineno) the mapping must have for a frame: the
\* map's entry for the frame's address where there is one.
EntryFrame(frame) ==
  IF frame.py_code = NullPtr
    THEN <<CallTraceErrorToName(frame.lineno), "", frame.lineno>>
  ELSE IF frame.py_code \in DOMAIN deallocated_code_
    THEN <<deallocated_code_[frame.py_code].name,
           deallocated_code_[frame.py_code].filename, frame.lineno>>
  ELSE <<heap[frame.py_code].name, "app.py", frame.lineno>>

EntryKey(t) == [k \in 1 .. Len(t) |-> EntryFrame(t[k])]

\* The map is cleared by Profiler::Reset and by the hook's constructor, in
\* these positions of Collect's thread; the session runs in the others.
MapCleared == s_pc \in {"idle", "constructed", "reset"}

\* C34: a frame whose address has an entry in the map is resolved by that
\* entry, whether or not a record lives at the address; the entry is the
\* snapshot of the first record destroyed at the address since the hook was
\* installed; and once an address has an entry, no step of the session
\* changes or removes it, another destruction at the address included.
C34_MapEntryShadows ==
  /\ [](Materialized =>
          DOMAIN py_traces = {EntryKey(t) : t \in DOMAIN aggregated_traces_})
  /\ [](/\ DOMAIN deallocated_code_ = DOMAIN first_death
        /\ \A a \in DOMAIN deallocated_code_ :
             deallocated_code_[a] = first_death[a])
  /\ [][~MapCleared =>
          \A a \in DOMAIN deallocated_code_ :
            /\ a \in DOMAIN deallocated_code_'
            /\ deallocated_code_'[a] = deallocated_code_[a]]_vars

\* The mapping has a key with the name of the first record of an address,
\* destroyed during the session, while a second record with another name
\* lives at the address and was sampled there.
C34_LiveRecordShadowed ==
  /\ Materialized
  /\ \E t \in DOMAIN aggregated_traces_ : \E k \in 1 .. Len(t) :
       LET a == t[k].py_code
       IN /\ a \in DOMAIN deallocated_code_
          /\ heap[a].live
          /\ heap[a].name # deallocated_code_[a].name
          /\ \E r \in sampled_code : r.addr = a /\ r.gen = heap[a].gen
          /\ EntryKey(t) \in DOMAIN py_traces
          /\ EntryKey(t)[k][1] = deallocated_code_[a].name

\* Two records were destroyed at one address during the session, and the
\* map has the snapshot of the first.
C34_SecondDeathKept ==
  \E a \in DOMAIN deallocated_code_ :
    /\ ~heap[a].live
    /\ heap[a].gen = 1
    /\ heap[a].name # deallocated_code_[a].name



(***************************************************************************)
(* Every sample in the result, under SpecSession.                          *)
(***************************************************************************)
\* Collect has materialized its mapping, and every handler invoked in the
\* session had returned before the last harvest passed its slot: no handler
\* runs, the table is empty, and no Add has returned false since
\* PythonTraces read unknown_stack_count_.
SessionSettled ==
  /\ Materialized
  /\ \A w \in Writers : h_pc[w] = "idle"
  /\ \A i \in Slots : count[i] = 0
  /\ GMCount(<<FakeFrame>>) = unknown_stack_count_

\* C35: the counts of the materialized mapping add up to the number of
\* handler invocations of the session that completed before its final
\* harvest, whatever the thread state of the sampled thread was.
C35_EveryHandlerCounted ==
  SessionSettled => PyTracesTotal = sampled[session]

\* One handler was invoked in the session, on a thread with a thread state
\* and no frame; its Add returned true; the session has harvested and
\* materialized, and the mapping is empty.
C35_ZeroFrameSampleUncounted ==
  /\ SessionSettled
  /\ sampled[session] = 1
  /\ calls[<<>>] = 1
  /\ adds_true[<<>>] = 1
  /\ py_traces = <<>>

\* The zero-frame sample is lost at a periodic harvest already: the loop of
\* Collect goes on with the table and the growable multiset empty.
C35_LostAtPeriodicHarvest ==
  /\ s_pc = "loop"
  /\ timer_armed
  /\ d_pc = "idle"
  /\ \A w \in Writers : h_pc[w] = "idle"
  /\ adds_true[<<>>] = 1
  /\ \A i \in Slots : count[i] = 0
  /\ aggregated_traces_ = <<>>

\* Every other sample is counted once: the counts add up to the handler
\* invocations less the zero-frame samples whose Add returned true.
C35_SamplesWithFramesCounted ==
  SessionSettled => PyTracesTotal = sampled[session] - adds_true[<<>>]



(***************************************************************************)
(* Materialization keeps the total, under SpecSession.                     *)
(***************************************************************************)
\* C36: when PythonTraces hands out a mapping, the sum of its values is the
\* sum of the counts the growable multiset had plus unknown_stack_count_,
\* also when several traces have been entered under one key; afterwards
\* the multiset holds unknown_stack_count_ under the synthetic trace, and
\* the mapping's total is the multiset's.
C36_TotalPreserved ==
  /\ [][MappingMade =>
          SumOver(py_traces', DOMAIN py_traces')
            = GMTotal + unknown_stack_count_]_vars
  /\ [](Materialized =>
          /\ PyTracesTotal = GMTotal
          /\ Cardinality(DOMAIN py_traces)
               <= Cardinality(DOMAIN aggregated_traces_))

\* Two traces of the growable multiset are under one key of the mapping,
\* whose value is the sum of their counts.
C36_TwoTracesSummed ==
  /\ Materialized
  /\ Cardinality(DOMAIN aggregated_traces_) = 2
  /\ Cardinality(DOMAIN py_traces) = 1
  /\ unknown_stack_count_ = 0
  /\ PyTracesTotal = 2

\* The mapping's total is made of a harvested sample and of an Add that
\* returned false.
C36_UnknownInTotal ==
  /\ Materialized
  /\ unknown_stack_count_ = 1
  /\ GMCount(<<FakeFrame>>) = 1
  /\ Cardinality(DOMAIN aggregated_traces_) = 2
  /\ PyTracesTotal = 2



(***************************************************************************)
(* The timer and the disposition of SIGPROF when Collect has returned.     *)
(***************************************************************************)
\* profile_cpu has been called and Collect has returned to its caller.
CollectReturned == s_pc = "idle" /\ session > 0

\* C37: when Collect has returned, by whichever path, the timer is
\* disarmed and the disposition of SIGPROF is the ignore action.
C37_QuietAfterReturn ==
  CollectReturned => ~timer_armed /\ sig_action = "ignore"

\* Collect has returned nullptr because Start failed; the timer is not
\* armed, and the disposition of SIGPROF is the sampling handler that Reset
\* installed.
C37_HandlerLeftInstalled ==
  /\ CollectReturned
  /\ StartFailed
  /\ py_traces = "nullptr"
  /\ ~timer_armed
  /\ sig_action = "handle"

\* Under SpecSession: on the paths through Stop the claim holds, and on
\* every path the timer is disarmed; after a failed Start the disposition
\* is what Reset left, the handler unless sigaction failed.
C37_QuietAfterStop ==
  CollectReturned =>
    /\ ~timer_armed
    /\ ~StartFailed => sig_action = "ignore"
    /\ StartFailed =>
         sig_action = (IF set_action_failed THEN "default" ELSE "handle")

\* Under SpecRestart: a handler of the first session is still inside Add
\* when Collect has returned (C7).
C37_HandlerRunsAfterReturn ==
  /\ CollectReturned
  /\ session = 1
  /\ sig_action = "ignore"
  /\ \E w \in Writers : h_pc[w] # "idle"


\* ------------------------------------------------------------------------
\* C38: what an Add that returns false leaves behind.

\* The Adds other than w that are between their fetch_add and their
\* fetch_sub at slot i.
OtherUpdatingWriters(w, i) == UpdatingWriters(i) \ {w}

\* The Add of w has left its loop after MaxEntries() probes.
AddReturnedFalse(w) == h_pc[w] = "ret_false"

\* A step of the Add of w that is not its return of true.
AddStepWithoutTrue(w) ==
  /\ AddStepOf(w)
  /\ ~AddReturnsTrue(w)

\* A write of a count or of frames by the Add of w is a successful
\* compare-exchange or follows one: it is in the history of the call.
WriteIsLogged(w) ==
  (count' # count \/ trace' # trace) => Len(h_log'[w]) = Len(h_log[w]) + 1

\* C38: an Add that returns false has written no count and no frames, so
\* every slot's count and frames are what they would be without the call;
\* and once it has returned, every slot's active_updates is the number of the
\* other Adds in progress at the slot: the value without the call, which is
\* the value before the call when no other Add and no Reset ran meanwhile.
C38_FalseAddLeavesTable ==
  /\ [](\A w \in Writers :
          AddReturnedFalse(w) =>
            /\ h_log[w] = <<>>
            /\ \A i \in Slots :
                 active_updates[i] = Cardinality(OtherUpdatingWriters(w, i)))
  /\ [][\A w \in Writers :
          AddStepWithoutTrue(w) /\ (\A v \in Writers \ {w} : h_pc'[v] = h_pc[v])
            /\ d_pc' = d_pc /\ s_pc' = s_pc
            => WriteIsLogged(w)]_vars

\* An Add of a session has returned false after the next session's Reset
\* cleared the table between its fetch_add and its fetch_sub: the slot's
\* active_updates was 0 before the call and is -1 after it (C7).
C38_FalseAddLeavesNegative ==
  \E w \in Writers :
    /\ AddReturnedFalse(w)
    /\ h_log[w] = <<>>
    /\ \E i \in Slots :
         /\ active_updates[i] = -1
         /\ OtherUpdatingWriters(w, i) = {}

\* Within one session: an Add has returned false beside an Add that is
\* between its fetch_add and its fetch_sub, and the slot's active_updates is
\* 1, the other Add's share.
C38_FalseAddBesideUpdater ==
  \E w \in Writers :
    /\ AddReturnedFalse(w)
    /\ h_log[w] = <<>>
    /\ \E i \in Slots :
         /\ active_updates[i] = 1
         /\ Cardinality(OtherUpdatingWriters(w, i)) = 1


\* ------------------------------------------------------------------------
\* C39: the results of TimeAdd in Collect, under SpecTime.

\* 0 <= tv_nsec < kNanosPerSecond
Normalized(ts) == ts.tv_nsec >= 0 /\ ts.tv_nsec < kNanosPerSecond

\* TimeLessThan orders t1 and t2 as their total nanoseconds do.
OrderedAsNanos(t1, t2) ==
  /\ TimeLessThan(t1, t2) <=> Nanos(t1) < Nanos(t2)
  /\ TimeLessThan(t2, t1) <=> Nanos(t2) < Nanos(t1)

\* AlmostThere's margin: {lap.tv_sec * margin_laps, lap.tv_nsec * margin_laps}
Margin(lap) ==
  TimeSpec(lap.tv_sec * kMarginLaps, lap.tv_nsec * kMarginLaps)

\* The TimeAdd calls of Collect whose result the call has in hand at its
\* position: finish_line from Py_BEGIN_ALLOW_THREADS on, the sum AlmostThere
\* compares it with in the loop, and the deadline of the settle sleep.
\* Each is a record of the two inputs and the result.
TimeAddCall(t1, t2) == [t1 |-> t1, t2 |-> t2, sum |-> TimeAdd(t1, t2)]

TimeAddCalls ==
  (IF t_pc # "idle"
     THEN {[t1 |-> NanosToTimeSpec(t_begin),
            t2 |-> NanosToTimeSpec(t_duration), sum |-> t_finish]}
     ELSE {})
  \cup (IF t_pc = "loop"
          THEN {TimeAddCall(t_now, Margin(flush_interval))}
          ELSE {})
  \cup (IF t_pc = "settle"
          THEN {TimeAddCall(t_finish, flush_interval)}
          ELSE {})

\* C39: TimeAdd of two normalized timespecs returns a normalized timespec
\* whose total nanoseconds are the sum of the inputs' total nanoseconds,
\* also when the nanosecond fields add up to exactly kNanosPerSecond; so the
\* deadline passed to SleepUntil is a valid timespec every time, and
\* TimeLessThan orders the results as their total nanoseconds do.
C39_TimeAddNormalizes ==
  /\ \A c \in TimeAddCalls :
       (Normalized(c.t1) /\ Normalized(c.t2)) =>
         /\ c.sum = TimeAdd(c.t1, c.t2)
         /\ Normalized(c.sum)
         /\ Nanos(c.sum) = Nanos(c.t1) + Nanos(c.t2)
  /\ t_pc = "sleep_until" => ValidTimeSpec(t_finish)
  /\ t_pc = "settle" => ValidTimeSpec(TimeAdd(t_finish, flush_interval))
  /\ t_pc = "loop" =>
       OrderedAsNanos(t_finish, TimeAdd(t_now, Margin(flush_interval)))
  /\ \A c \in TimeAddCalls :
       OrderedAsNanos(c.sum, TimeAddCarried(c.t1, c.t2))

\* The nanoseconds of the clock at Py_BEGIN_ALLOW_THREADS and those of the
\* duration, both normalized, add up to exactly kNanosPerSecond: finish_line
\* has the total of its inputs but tv_nsec = kNanosPerSecond, it is the
\* deadline SleepUntil is about to be given, and TimeLessThan puts it before
\* the normalized timespec of the same total.
C39_FullSecondNotCarried ==
  /\ t_pc = "sleep_until"
  /\ ~t_einval
  /\ Normalized(NanosToTimeSpec(t_begin))
  /\ Normalized(NanosToTimeSpec(t_duration))
  /\ NanosToTimeSpec(t_begin).tv_nsec + NanosToTimeSpec(t_duration).tv_nsec
       = kNanosPerSecond
  /\ t_finish = TimeAdd(NanosToTimeSpec(t_begin), NanosToTimeSpec(t_duration))
  /\ Nanos(t_finish) = t_begin + t_duration
  /\ t_finish.tv_nsec = kNanosPerSecond
  /\ ~ValidTimeSpec(t_finish)
  /\ TimeLessThan(t_finish, NanosToTimeSpec(t_begin + t_duration))

\* What does hold of every TimeAdd call of Collect: the total is the sum of
\* the inputs' totals, tv_nsec is at most kNanosPerSecond, and the result is
\* normalized unless the nanosecond fields add up to exactly
\* kNanosPerSecond.
C39_TotalKept ==
  \A c \in TimeAddCalls :
    (Normalized(c.t1) /\ Normalized(c.t2)) =>
      /\ Nanos(c.sum) = Nanos(c.t1) + Nanos(c.t2)
      /\ c.sum.tv_nsec >= 0 /\ c.sum.tv_nsec <= kNanosPerSecond
      /\ Normalized(c.sum) <=> c.t1.tv_nsec + c.t2.tv_nsec # kNanosPerSecond

\* The nanosecond fields add up to more than kNanosPerSecond: the second is
\* carried and the result is normalized.
C39_SecondCarried ==
  /\ t_pc = "sleep_until"
  /\ NanosToTimeSpec(t_begin).tv_nsec + NanosToTimeSpec(t_duration).tv_nsec
       > kNanosPerSecond
  /\ ValidTimeSpec(t_finish)
  /\ Nanos(t_finish) = t_begin + t_duration

====
